---- MODULE Spec2Model ----
(***************************************************************************)
(* A model of zerocrush (src/src/lib.rs): a streaming run-length codec for *)
(* sparse data.  The Encoder and the Decoder are state records advanced by *)
(* step(consumed, produced) -> (consumed_len, produced_len, state); the    *)
(* slice helpers run one step on a fresh codec.                            *)
(*                                                                         *)
(* u32 words (symbol_data) are sequences of 32 bits, most significant bit  *)
(* first, so that shifts drop the bits a u32 drops; u8 and u16 values are  *)
(* integers reduced modulo 2^8 and 2^16.                                   *)
(***************************************************************************)
EXTENDS Integers, Sequences, FiniteSets, TLC

\* ------------------------------------------------------------ bounds

\* Longest plain input handed to the encoder, in bytes.
MaxInput == 2

\* Largest small output buffer a caller passes to one step call, in bytes.
MaxCap == 1

\* The size of the buffers the slice helpers' callers pass: large enough for
\* every stream of the model.
BigCap == 4096

\* The size of the buffer the encoder's streaming caller fills, slice by slice.
EncoderBuffer == 32

\* The size of the buffer the decoder's streaming caller fills, slice by slice.
DecoderBuffer == 32

\* ------------------------------------------------------------ integers

Min(a, b) == IF a <= b THEN a ELSE b

Pow2(n) == 2 ^ n

\* a | b on unsigned integers.
RECURSIVE BitOr(_, _)
BitOr(a, b) ==
    IF a = 0 THEN b
    ELSE IF b = 0 THEN a
    ELSE (IF a % 2 = 1 \/ b % 2 = 1 THEN 1 ELSE 0) + 2 * BitOr(a \div 2, b \div 2)

\* a & b on unsigned integers.
RECURSIVE BitAnd(_, _)
BitAnd(a, b) ==
    IF a = 0 \/ b = 0 THEN 0
    ELSE (a % 2) * (b % 2) + 2 * BitAnd(a \div 2, b \div 2)

\* u8::leading_zeros
LeadingZeros8(b) ==
    IF b = 0 THEN 8 ELSE CHOOSE n \in 0..7 : Pow2(7 - n) <= b /\ b < Pow2(8 - n)

\* u8::leading_ones
LeadingOnes8(b) == LeadingZeros8(255 - b)

\* b << k on a u8 (k < 8): the bits shifted out of the byte are lost.
Shl8(b, k) == (b * Pow2(k)) % 256

\* ------------------------------------------------------------ u32 words

Zero32 == [i \in 1..32 |-> 0]

\* The u32 whose value is n (0 <= n < 2^31).
U32(n) == [i \in 1..32 |-> IF i = 1 THEN 0 ELSE (n \div Pow2(32 - i)) % 2]

\* x << k on a u32 (k < 32).
Shl32(x, k) == [i \in 1..32 |-> IF i + k <= 32 THEN x[i + k] ELSE 0]

\* x >> k on a u32 (k < 32).
Shr32(x, k) == [i \in 1..32 |-> IF i - k >= 1 THEN x[i - k] ELSE 0]

\* x | y on u32.
Or32(x, y) == [i \in 1..32 |-> IF x[i] = 1 \/ y[i] = 1 THEN 1 ELSE 0]

\* u32::leading_zeros
LeadingZeros32(x) ==
    IF \A i \in 1..32 : x[i] = 0 THEN 32
    ELSE (CHOOSE i \in 1..32 : x[i] = 1 /\ \A j \in 1..(i - 1) : x[j] = 0) - 1

\* The value of the low n bits of x (n <= 16).
RECURSIVE LowBits(_, _)
LowBits(x, n) == IF n = 0 THEN 0 ELSE Pow2(n - 1) * x[33 - n] + LowBits(x, n - 1)

\* x as u8, x as u16: the truncating casts.
AsU8(x) == LowBits(x, 8)
AsU16(x) == LowBits(x, 16)

\* ------------------------------------------------------------ Encoder

EncoderNew ==
    [symbol_bits |-> 0, queued_bits |-> 0, output_bits |-> 0,
     symbol_data |-> Zero32, output_data |-> 0,
     queued_done |-> FALSE, queued_mode |-> FALSE, symbol_term |-> FALSE,
     queued_term |-> FALSE, output_term |-> FALSE]

\* Encoder::set_consumed_bytes_end
EncoderSetConsumedBytesEnd(e) == [e EXCEPT !.queued_term = TRUE]

\* A mutant of EncoderWantsByte: a terminated encoder still takes input.
EncoderWantsByteAfterTerm(e) == e.output_bits = 0

\* The guard of the input fetch in Encoder::consume.
EncoderWantsByte(e) == e.output_bits = 0 /\ ~e.symbol_term

\* A mutant of EncoderStarved: the end-of-input signal is ignored.
EncoderStarvedIgnoresEnd(e) == TRUE

\* The guard of the early return of Encoder::consume when the input slice
\* has run out.
EncoderStarved(e) == ~e.queued_term

\* Encoder::consume: the result carries the encoder, the advanced
\* consumed_len and the returned bool (TRUE: more input is needed).
EncoderConsume(e, consumed, consumed_len) ==
    LET fetch == EncoderWantsByte(e)
        have  == consumed_len < Len(consumed)
        e1    == IF fetch /\ have
                 THEN [e EXCEPT !.output_data = consumed[consumed_len + 1],
                                !.output_bits = 8]
                 ELSE e
        cl1   == IF fetch /\ have THEN consumed_len + 1 ELSE consumed_len
        count == Min(IF e1.queued_mode THEN LeadingOnes8(e1.output_data)
                                       ELSE LeadingZeros8(e1.output_data),
                     e1.output_bits)
    IN  IF fetch /\ ~have /\ EncoderStarved(e)
        THEN [enc |-> e, consumed_len |-> consumed_len, ret |-> TRUE]
        ELSE IF e1.queued_done
        THEN [enc |-> e1, consumed_len |-> cl1, ret |-> FALSE]
        ELSE IF e1.output_bits > 0 \/ e1.queued_bits > 0
        THEN IF count = 0
             THEN [enc |-> [e1 EXCEPT !.queued_mode = ~e1.queued_mode,
                                      !.queued_done = TRUE],
                   consumed_len |-> cl1, ret |-> FALSE]
             ELSE [enc |-> [e1 EXCEPT
                              !.output_data = IF count < 8 THEN Shl8(@, count) ELSE @,
                              !.output_bits = @ - count,
                              !.queued_bits = @ + count],
                   consumed_len |-> cl1, ret |-> FALSE]
        ELSE [enc |-> [e1 EXCEPT !.symbol_term = TRUE],
              consumed_len |-> cl1, ret |-> FALSE]

\* The end-of-stream, no-op and continuation payloads of a long symbol.
PayloadEnd == 4095
PayloadNoop == 4094
PayloadCont == 4093

\* A mutant of EncoderWideArms: one zero too many in the prefix literal of the
\* arm for 15..30.
EncoderWideArmsSlip ==
    << <<1, 2, 2, 30, 2>>,          <<3, 6, 4, 28, 4>>,
       <<7, 14, 8, 26, 6>>,         <<15, 30, 8, 24, 8>>,
       <<31, 62, 32, 22, 10>>,      <<63, 126, 64, 20, 12>>,
       <<127, 254, 128, 18, 14>>,   <<255, 510, 256, 16, 16>>,
       <<511, 1022, 512, 14, 18>>,  <<1023, 2046, 1024, 12, 20>>,
       <<2047, 4094, 2048, 10, 22>>, <<4095, 8190, 4096, 8, 24>> >>

\* The arms 1..=2, 3..=6, ..., 4095..=8190 of the match on queued_bits taken
\* when queued_mode is set: <<first, last, prefix literal, shift base, bits>>.
EncoderWideArms ==
    << <<1, 2, 2, 30, 2>>,          <<3, 6, 4, 28, 4>>,
       <<7, 14, 8, 26, 6>>,         <<15, 30, 16, 24, 8>>,
       <<31, 62, 32, 22, 10>>,      <<63, 126, 64, 20, 12>>,
       <<127, 254, 128, 18, 14>>,   <<255, 510, 256, 16, 16>>,
       <<511, 1022, 512, 14, 18>>,  <<1023, 2046, 1024, 12, 20>>,
       <<2047, 4094, 2048, 10, 22>>, <<4095, 8190, 4096, 8, 24>> >>

\* A mutant of EncoderSymbol: the two code tables are taken for each other.
EncoderSymbolSwapped(queued_mode, queued_bits) ==
    LET fits == IF queued_mode THEN queued_bits <= 4105 ELSE queued_bits <= 12283
    IN  IF queued_bits = 0
        THEN [val |-> PayloadNoop, base |-> 8, bits |-> 24, sub |-> 0, cont |-> FALSE]
        ELSE IF queued_mode /\ queued_bits <= 12
        THEN [val |-> 1, base |-> 32 - queued_bits, bits |-> queued_bits, sub |-> 0,
              cont |-> FALSE]
        ELSE IF queued_mode /\ fits
        THEN [val |-> queued_bits - 13, base |-> 8, bits |-> 24, sub |-> 0,
              cont |-> FALSE]
        ELSE IF ~queued_mode /\ queued_bits <= 8190
        THEN LET k == CHOOSE j \in 1..12 :
                         Pow2(j) - 1 <= queued_bits /\ queued_bits <= Pow2(j + 1) - 2
             IN  [val |-> Pow2(k) + queued_bits - (Pow2(k) - 1), base |-> 32 - 2 * k,
                  bits |-> 2 * k, sub |-> 0, cont |-> FALSE]
        ELSE IF ~queued_mode /\ fits
        THEN [val |-> queued_bits - 8191, base |-> 8, bits |-> 24, sub |-> 0,
              cont |-> FALSE]
        ELSE [val |-> PayloadCont, base |-> 8, bits |-> 24,
              sub |-> IF queued_mode THEN 4106 ELSE 12284, cont |-> TRUE]

\* A mutant of EncoderSymbol: the continuation of a run of one bits takes one
\* bit too few off queued_bits.
EncoderSymbolShortCont(queued_mode, queued_bits) ==
    IF queued_mode
    THEN IF queued_bits = 0
         THEN [val |-> PayloadNoop, base |-> 8, bits |-> 24, sub |-> 0, cont |-> FALSE]
         ELSE IF queued_bits <= 8190
         THEN LET a == EncoderWideArms[CHOOSE k \in 1..12 :
                          /\ EncoderWideArms[k][1] <= queued_bits
                          /\ queued_bits <= EncoderWideArms[k][2]]
              IN  [val |-> BitOr(a[3], queued_bits - a[1]), base |-> a[4],
                   bits |-> a[5], sub |-> 0, cont |-> FALSE]
         ELSE IF queued_bits <= 12283
         THEN [val |-> queued_bits - 8191, base |-> 8, bits |-> 24, sub |-> 0,
               cont |-> FALSE]
         ELSE [val |-> PayloadCont, base |-> 8, bits |-> 24, sub |-> 12284,
               cont |-> TRUE]
    ELSE IF queued_bits = 0
         THEN [val |-> PayloadNoop, base |-> 8, bits |-> 24, sub |-> 0, cont |-> FALSE]
         ELSE IF queued_bits <= 12
         THEN [val |-> 1, base |-> 32 - queued_bits, bits |-> queued_bits, sub |-> 0,
               cont |-> FALSE]
         ELSE IF queued_bits <= 4105
         THEN [val |-> queued_bits - 13, base |-> 8, bits |-> 24, sub |-> 0,
               cont |-> FALSE]
         ELSE [val |-> PayloadCont, base |-> 8, bits |-> 24, sub |-> 4105,
               cont |-> TRUE]

\* A mutant of EncoderSymbol: an empty run of zero bits is packed as the
\* shortest long run.
EncoderSymbolEmptyAsLong(queued_mode, queued_bits) ==
    IF queued_mode
    THEN IF queued_bits = 0
         THEN [val |-> 0, base |-> 8, bits |-> 24, sub |-> 0, cont |-> FALSE]
         ELSE IF queued_bits <= 8190
         THEN LET a == EncoderWideArms[CHOOSE k \in 1..12 :
                          /\ EncoderWideArms[k][1] <= queued_bits
                          /\ queued_bits <= EncoderWideArms[k][2]]
              IN  [val |-> BitOr(a[3], queued_bits - a[1]), base |-> a[4],
                   bits |-> a[5], sub |-> 0, cont |-> FALSE]
         ELSE IF queued_bits <= 12283
         THEN [val |-> queued_bits - 8191, base |-> 8, bits |-> 24, sub |-> 0,
               cont |-> FALSE]
         ELSE [val |-> PayloadCont, base |-> 8, bits |-> 24, sub |-> 12284,
               cont |-> TRUE]
    ELSE IF queued_bits = 0
         THEN [val |-> PayloadNoop, base |-> 8, bits |-> 24, sub |-> 0, cont |-> FALSE]
         ELSE IF queued_bits <= 12
         THEN [val |-> 1, base |-> 32 - queued_bits, bits |-> queued_bits, sub |-> 0,
               cont |-> FALSE]
         ELSE IF queued_bits <= 4105
         THEN [val |-> queued_bits - 13, base |-> 8, bits |-> 24, sub |-> 0,
               cont |-> FALSE]
         ELSE [val |-> PayloadCont, base |-> 8, bits |-> 24, sub |-> 4106,
               cont |-> TRUE]

\* The symbol the match in Encoder::produce packs for a completed run of
\* queued_bits bits: the value, the shift base (the value is shifted left by
\* base - symbol_bits), the bits it adds, the bits it takes off queued_bits
\* and whether it is a continuation.
EncoderSymbol(queued_mode, queued_bits) ==
    IF queued_mode
    THEN IF queued_bits = 0
         THEN [val |-> PayloadNoop, base |-> 8, bits |-> 24, sub |-> 0, cont |-> FALSE]
         ELSE IF queued_bits <= 8190
         THEN LET a == EncoderWideArms[CHOOSE k \in 1..12 :
                          /\ EncoderWideArms[k][1] <= queued_bits
                          /\ queued_bits <= EncoderWideArms[k][2]]
              IN  [val |-> BitOr(a[3], queued_bits - a[1]), base |-> a[4],
                   bits |-> a[5], sub |-> 0, cont |-> FALSE]
         ELSE IF queued_bits <= 12283
         THEN [val |-> queued_bits - 8191, base |-> 8, bits |-> 24, sub |-> 0,
               cont |-> FALSE]
         ELSE [val |-> PayloadCont, base |-> 8, bits |-> 24, sub |-> 12284,
               cont |-> TRUE]
    ELSE IF queued_bits = 0
         THEN [val |-> PayloadNoop, base |-> 8, bits |-> 24, sub |-> 0, cont |-> FALSE]
         ELSE IF queued_bits <= 12
         THEN [val |-> 1, base |-> 32 - queued_bits, bits |-> queued_bits, sub |-> 0,
               cont |-> FALSE]
         ELSE IF queued_bits <= 4105
         THEN [val |-> queued_bits - 13, base |-> 8, bits |-> 24, sub |-> 0,
               cont |-> FALSE]
         ELSE [val |-> PayloadCont, base |-> 8, bits |-> 24, sub |-> 4106,
               cont |-> TRUE]

\* A mutant of EncoderPack: the end-of-stream symbol always leaves 24 symbol
\* bits, whatever was buffered before it.
EncoderPackEndShort(e) ==
    IF e.symbol_bits <= 8
    THEN IF e.symbol_term /\ ~e.output_term
         THEN [e EXCEPT
                 !.symbol_data = Or32(@, Shl32(U32(PayloadEnd), 8 - e.symbol_bits)),
                 !.symbol_bits = 24]
         ELSE IF e.queued_done
         THEN LET s == EncoderSymbol(e.queued_mode, e.queued_bits)
              IN  [e EXCEPT
                     !.symbol_data = Or32(@, Shl32(U32(s.val), s.base - e.symbol_bits)),
                     !.symbol_bits = @ + s.bits,
                     !.queued_bits = IF s.cont THEN @ - s.sub ELSE 0,
                     !.queued_done = IF s.cont THEN @ ELSE FALSE]
         ELSE e
    ELSE e

\* The first half of Encoder::produce: when at most 8 symbol bits are
\* buffered, pack the end-of-stream symbol or the symbol of the completed run.
EncoderPack(e) ==
    IF e.symbol_bits <= 8
    THEN IF e.symbol_term /\ ~e.output_term
         THEN [e EXCEPT
                 !.symbol_data = Or32(@, Shl32(U32(PayloadEnd), 8 - e.symbol_bits)),
                 !.symbol_bits = IF e.symbol_bits = 0 THEN 24 ELSE 32]
         ELSE IF e.queued_done
         THEN LET s == EncoderSymbol(e.queued_mode, e.queued_bits)
              IN  [e EXCEPT
                     !.symbol_data = Or32(@, Shl32(U32(s.val), s.base - e.symbol_bits)),
                     !.symbol_bits = @ + s.bits,
                     !.queued_bits = IF s.cont THEN @ - s.sub ELSE 0,
                     !.queued_done = IF s.cont THEN @ ELSE FALSE]
         ELSE e
    ELSE e

\* A mutant of EncoderFlush: the last byte of the output slice is never used.
RECURSIVE EncoderFlushOffByOne(_, _, _)
EncoderFlushOffByOne(e, cap, produced) ==
    IF e.symbol_bits >= 8
    THEN IF Len(produced) + 1 < cap
         THEN EncoderFlushOffByOne([e EXCEPT !.symbol_data = Shl32(@, 8),
                                             !.symbol_bits = @ - 8],
                                   cap, Append(produced, AsU8(Shr32(e.symbol_data, 24))))
         ELSE [enc |-> e, produced |-> produced, ret |-> TRUE]
    ELSE [enc |-> IF e.symbol_term /\ e.symbol_bits = 0
                  THEN [e EXCEPT !.output_term = TRUE] ELSE e,
          produced |-> produced, ret |-> FALSE]

\* The second half of Encoder::produce: move whole bytes from the top of
\* symbol_data to the output slice (cap is its length, produced what this call
\* has written so far); TRUE is returned when the slice is full.
RECURSIVE EncoderFlush(_, _, _)
EncoderFlush(e, cap, produced) ==
    IF e.symbol_bits >= 8
    THEN IF Len(produced) < cap
         THEN EncoderFlush([e EXCEPT !.symbol_data = Shl32(@, 8),
                                     !.symbol_bits = @ - 8],
                           cap, Append(produced, AsU8(Shr32(e.symbol_data, 24))))
         ELSE [enc |-> e, produced |-> produced, ret |-> TRUE]
    ELSE [enc |-> IF e.symbol_term /\ e.symbol_bits = 0
                  THEN [e EXCEPT !.output_term = TRUE] ELSE e,
          produced |-> produced, ret |-> FALSE]

\* Encoder::produce
EncoderProduce(e, cap, produced) == EncoderFlush(EncoderPack(e), cap, produced)

\* The loop of Encoder::step.
RECURSIVE EncoderLoop(_, _, _, _, _)
EncoderLoop(e, consumed, consumed_len, cap, produced) ==
    LET c == EncoderConsume(e, consumed, consumed_len)
        p == EncoderProduce(c.enc, cap, produced)
    IN  IF c.ret
        THEN [enc |-> c.enc, consumed_len |-> c.consumed_len, produced |-> produced,
              state |-> "CanConsume"]
        ELSE IF p.ret
        THEN [enc |-> p.enc, consumed_len |-> c.consumed_len, produced |-> p.produced,
              state |-> "CanProduce"]
        ELSE IF p.enc.output_term
        THEN [enc |-> p.enc, consumed_len |-> c.consumed_len, produced |-> p.produced,
              state |-> "Terminated"]
        ELSE EncoderLoop(p.enc, consumed, c.consumed_len, cap, p.produced)

\* Encoder::step on the input slice consumed and an output slice of cap bytes.
EncoderStep(e, consumed, cap) == EncoderLoop(e, consumed, 0, cap, <<>>)

\* encode_into_slice
encode_into_slice(input, cap) ==
    LET r == EncoderStep(EncoderSetConsumedBytesEnd(EncoderNew), input, cap)
    IN  CASE r.state = "CanConsume" -> [tag |-> "Unreachable", bytes |-> <<>>]
          [] r.state = "CanProduce" -> [tag |-> "NeedsMoreSpace", bytes |-> <<>>]
          [] r.state = "Terminated" -> [tag |-> "Ok", bytes |-> r.produced]

\* ------------------------------------------------------------ Decoder

DecoderNew ==
    [symbol_bits |-> 0, queued_bits |-> 0, output_bits |-> 0,
     symbol_data |-> Zero32, output_data |-> 0,
     queued_mode |-> FALSE, symbol_mode |-> FALSE, symbol_term |-> FALSE]

\* A mutant of DecoderFill: the bits of a symbol cut by the end of the input
\* slice are not kept for the next call.
RECURSIVE DecoderFillRestarts(_, _, _)
DecoderFillRestarts(d, consumed, consumed_len) ==
    IF d.symbol_bits < 24
    THEN IF consumed_len < Len(consumed)
         THEN DecoderFillRestarts(
                [d EXCEPT !.symbol_data =
                              Or32(@, Shl32(U32(consumed[consumed_len + 1]),
                                            24 - d.symbol_bits)),
                          !.symbol_bits = @ + 8],
                consumed, consumed_len + 1)
         ELSE [dec |-> [d EXCEPT !.symbol_data = Zero32, !.symbol_bits = 0],
               consumed_len |-> consumed_len, ret |-> TRUE]
    ELSE [dec |-> d, consumed_len |-> consumed_len, ret |-> FALSE]

\* A mutant of DecoderFill: the last byte of the input slice is never read.
RECURSIVE DecoderFillOffByOne(_, _, _)
DecoderFillOffByOne(d, consumed, consumed_len) ==
    IF d.symbol_bits < 24
    THEN IF consumed_len + 1 < Len(consumed)
         THEN DecoderFillOffByOne(
                [d EXCEPT !.symbol_data =
                              Or32(@, Shl32(U32(consumed[consumed_len + 1]),
                                            24 - d.symbol_bits)),
                          !.symbol_bits = @ + 8],
                consumed, consumed_len + 1)
         ELSE [dec |-> d, consumed_len |-> consumed_len, ret |-> TRUE]
    ELSE [dec |-> d, consumed_len |-> consumed_len, ret |-> FALSE]

\* A mutant of DecoderFill: a window of exactly 24 bits takes one more byte.
RECURSIVE DecoderFillAhead(_, _, _)
DecoderFillAhead(d, consumed, consumed_len) ==
    IF d.symbol_bits <= 24
    THEN IF consumed_len < Len(consumed)
         THEN DecoderFillAhead(
                [d EXCEPT !.symbol_data =
                              Or32(@, Shl32(U32(consumed[consumed_len + 1]),
                                            24 - d.symbol_bits)),
                          !.symbol_bits = @ + 8],
                consumed, consumed_len + 1)
         ELSE [dec |-> d, consumed_len |-> consumed_len, ret |-> TRUE]
    ELSE [dec |-> d, consumed_len |-> consumed_len, ret |-> FALSE]

\* The while loop of Decoder::consume: shift input bytes into the window
\* until it holds 24 bits; TRUE is returned when the input slice runs out.
RECURSIVE DecoderFill(_, _, _)
DecoderFill(d, consumed, consumed_len) ==
    IF d.symbol_bits < 24
    THEN IF consumed_len < Len(consumed)
         THEN DecoderFill(
                [d EXCEPT !.symbol_data =
                              Or32(@, Shl32(U32(consumed[consumed_len + 1]),
                                            24 - d.symbol_bits)),
                          !.symbol_bits = @ + 8],
                consumed, consumed_len + 1)
         ELSE [dec |-> d, consumed_len |-> consumed_len, ret |-> TRUE]
    ELSE [dec |-> d, consumed_len |-> consumed_len, ret |-> FALSE]

\* A mutant of DecoderSymbol: the run of a doubled-width code is its payload,
\* the mask is not added.
DecoderSymbolNoMask(symbol_data, symbol_mode) ==
    LET prefix_len == LeadingZeros32(symbol_data)
    IN  IF prefix_len < 12
        THEN IF symbol_mode
             THEN [shift_out |-> prefix_len + 1, count |-> prefix_len + 1,
                   cont |-> FALSE, term |-> FALSE]
             ELSE LET shift_out == 2 * (prefix_len + 1)
                      mask == Pow2(prefix_len + 1) - 1
                      payload == AsU16(Shr32(symbol_data, 32 - shift_out))
                  IN  [shift_out |-> shift_out,
                       count |-> BitAnd(payload, mask),
                       cont |-> FALSE, term |-> FALSE]
        ELSE LET payload == BitAnd(AsU16(Shr32(symbol_data, 8)), 4095)
             IN  IF payload = PayloadEnd
                 THEN [shift_out |-> 24, count |-> 0, cont |-> FALSE, term |-> TRUE]
                 ELSE IF payload # PayloadNoop
                 THEN [shift_out |-> 24,
                       count |-> IF symbol_mode THEN (payload + 13) % 65536
                                                ELSE (payload + 8191) % 65536,
                       cont |-> payload = PayloadCont, term |-> FALSE]
                 ELSE [shift_out |-> 24, count |-> 0, cont |-> FALSE, term |-> FALSE]

\* A mutant of DecoderSymbol: the long symbols of mode 1 start at 12 bits.
DecoderSymbolShortLong(symbol_data, symbol_mode) ==
    LET prefix_len == LeadingZeros32(symbol_data)
    IN  IF prefix_len < 12
        THEN IF symbol_mode
             THEN [shift_out |-> prefix_len + 1, count |-> prefix_len + 1,
                   cont |-> FALSE, term |-> FALSE]
             ELSE LET shift_out == 2 * (prefix_len + 1)
                      mask == Pow2(prefix_len + 1) - 1
                      payload == AsU16(Shr32(symbol_data, 32 - shift_out))
                  IN  [shift_out |-> shift_out,
                       count |-> (BitAnd(payload, mask) + mask) % 65536,
                       cont |-> FALSE, term |-> FALSE]
        ELSE LET payload == BitAnd(AsU16(Shr32(symbol_data, 8)), 4095)
             IN  IF payload = PayloadEnd
                 THEN [shift_out |-> 24, count |-> 0, cont |-> FALSE, term |-> TRUE]
                 ELSE IF payload # PayloadNoop
                 THEN [shift_out |-> 24,
                       count |-> IF symbol_mode THEN (payload + 12) % 65536
                                                ELSE (payload + 8191) % 65536,
                       cont |-> payload = PayloadCont, term |-> FALSE]
                 ELSE [shift_out |-> 24, count |-> 0, cont |-> FALSE, term |-> FALSE]

\* The symbol at the top of the window, read in symbol_mode: the bits it
\* takes (shift_out), the run it queues (count), whether it is a continuation
\* and whether it is the end-of-stream marker.
DecoderSymbol(symbol_data, symbol_mode) ==
    LET prefix_len == LeadingZeros32(symbol_data)
    IN  IF prefix_len < 12
        THEN IF symbol_mode
             THEN [shift_out |-> prefix_len + 1, count |-> prefix_len + 1,
                   cont |-> FALSE, term |-> FALSE]
             ELSE LET shift_out == 2 * (prefix_len + 1)
                      mask == Pow2(prefix_len + 1) - 1
                      payload == AsU16(Shr32(symbol_data, 32 - shift_out))
                  IN  [shift_out |-> shift_out,
                       count |-> (BitAnd(payload, mask) + mask) % 65536,
                       cont |-> FALSE, term |-> FALSE]
        ELSE LET payload == BitAnd(AsU16(Shr32(symbol_data, 8)), 4095)
             IN  IF payload = PayloadEnd
                 THEN [shift_out |-> 24, count |-> 0, cont |-> FALSE, term |-> TRUE]
                 ELSE IF payload # PayloadNoop
                 THEN [shift_out |-> 24,
                       count |-> IF symbol_mode THEN (payload + 13) % 65536
                                                ELSE (payload + 8191) % 65536,
                       cont |-> payload = PayloadCont, term |-> FALSE]
                 ELSE [shift_out |-> 24, count |-> 0, cont |-> FALSE, term |-> FALSE]

\* A mutant of DecoderParse: the continuation toggles the mode as well.
DecoderParseAlwaysToggles(d) ==
    LET s == DecoderSymbol(d.symbol_data, d.symbol_mode)
    IN  [d EXCEPT !.symbol_term = IF s.term THEN TRUE ELSE @,
                  !.symbol_bits = @ - s.shift_out,
                  !.symbol_data = Shl32(@, s.shift_out),
                  !.queued_bits = IF s.count > 0 THEN s.count ELSE @,
                  !.queued_mode = IF s.count > 0 THEN d.symbol_mode ELSE @,
                  !.symbol_mode = ~d.symbol_mode]

\* A mutant of DecoderParse: the run takes the mode the toggle leaves.
DecoderParseModeAfterToggle(d) ==
    LET s == DecoderSymbol(d.symbol_data, d.symbol_mode)
    IN  [d EXCEPT !.symbol_term = IF s.term THEN TRUE ELSE @,
                  !.symbol_bits = @ - s.shift_out,
                  !.symbol_data = Shl32(@, s.shift_out),
                  !.queued_bits = IF s.count > 0 THEN s.count ELSE @,
                  !.queued_mode = IF s.count > 0 THEN ~d.symbol_mode ELSE @,
                  !.symbol_mode = IF ~s.cont THEN ~d.symbol_mode ELSE @]

\* A mutant of DecoderParse: the window is shifted by one bit less than the
\* symbol takes.
DecoderParseShiftShort(d) ==
    LET s == DecoderSymbol(d.symbol_data, d.symbol_mode)
    IN  [d EXCEPT !.symbol_term = IF s.term THEN TRUE ELSE @,
                  !.symbol_bits = @ - s.shift_out,
                  !.symbol_data = Shl32(@, s.shift_out - 1),
                  !.queued_bits = IF s.count > 0 THEN s.count ELSE @,
                  !.queued_mode = IF s.count > 0 THEN d.symbol_mode ELSE @,
                  !.symbol_mode = IF ~s.cont THEN ~d.symbol_mode ELSE @]

\* The rest of Decoder::consume once the window holds 24 bits: parse one
\* symbol, shift it out, queue its run and toggle the mode.
DecoderParse(d) ==
    LET s == DecoderSymbol(d.symbol_data, d.symbol_mode)
    IN  [d EXCEPT !.symbol_term = IF s.term THEN TRUE ELSE @,
                  !.symbol_bits = @ - s.shift_out,
                  !.symbol_data = Shl32(@, s.shift_out),
                  !.queued_bits = IF s.count > 0 THEN s.count ELSE @,
                  !.queued_mode = IF s.count > 0 THEN d.symbol_mode ELSE @,
                  !.symbol_mode = IF ~s.cont THEN ~d.symbol_mode ELSE @]

\* A mutant of DecoderWantsSymbol: a terminated decoder still parses.
DecoderWantsSymbolAfterTerm(d) == d.queued_bits = 0

\* The guard of Decoder::consume: no run is queued and the end-of-stream
\* marker has not been parsed.
DecoderWantsSymbol(d) == d.queued_bits = 0 /\ ~d.symbol_term

\* Decoder::consume
DecoderConsume(d, consumed, consumed_len) ==
    IF DecoderWantsSymbol(d)
    THEN LET f == DecoderFill(d, consumed, consumed_len)
         IN  IF f.ret THEN f
             ELSE [dec |-> DecoderParse(f.dec), consumed_len |-> f.consumed_len,
                   ret |-> FALSE]
    ELSE [dec |-> d, consumed_len |-> consumed_len, ret |-> FALSE]

\* A mutant of DecoderProduce: the whole-byte path is taken while bits are
\* withheld in output_data.
DecoderProduceFastUnaligned(d, cap, produced) ==
    IF d.queued_bits >= 8
    THEN LET transfer == Min(d.queued_bits \div 8, cap - Len(produced))
         IN  IF transfer = 0
             THEN [dec |-> d, produced |-> produced, ret |-> TRUE]
             ELSE [dec |-> [d EXCEPT !.queued_bits = @ - transfer * 8],
                   produced |-> produced \o
                       [i \in 1..transfer |-> IF d.queued_mode THEN 255 ELSE 0],
                   ret |-> FALSE]
    ELSE IF d.output_bits # 8 /\ d.queued_bits # 0
    THEN LET amount == Min(8 - d.output_bits, d.queued_bits)
             word == IF d.queued_mode THEN Pow2(amount) - 1 ELSE 0
         IN  [dec |-> [d EXCEPT !.output_data = BitOr(Shl8(@, amount), word),
                                !.output_bits = @ + amount,
                                !.queued_bits = @ - amount],
              produced |-> produced, ret |-> FALSE]
    ELSE IF d.output_bits = 8
    THEN IF Len(produced) < cap
         THEN [dec |-> [d EXCEPT !.output_data = 0, !.output_bits = 0],
               produced |-> Append(produced, d.output_data), ret |-> FALSE]
         ELSE [dec |-> d, produced |-> produced, ret |-> TRUE]
    ELSE [dec |-> d, produced |-> produced, ret |-> FALSE]

\* A mutant of DecoderProduce: the whole-byte path is taken only for more than
\* eight queued bits, so eight queued bits go through the partial byte.
DecoderProduceFastOverEight(d, cap, produced) ==
    IF d.output_bits = 0 /\ d.queued_bits > 8
    THEN LET transfer == Min(d.queued_bits \div 8, cap - Len(produced))
         IN  IF transfer = 0
             THEN [dec |-> d, produced |-> produced, ret |-> TRUE]
             ELSE [dec |-> [d EXCEPT !.queued_bits = @ - transfer * 8],
                   produced |-> produced \o
                       [i \in 1..transfer |-> IF d.queued_mode THEN 255 ELSE 0],
                   ret |-> FALSE]
    ELSE IF d.output_bits # 8 /\ d.queued_bits # 0
    THEN LET amount == Min(8 - d.output_bits, d.queued_bits)
             word == IF d.queued_mode THEN Pow2(amount) - 1 ELSE 0
         IN  [dec |-> [d EXCEPT !.output_data = BitOr(Shl8(@, amount), word),
                                !.output_bits = @ + amount,
                                !.queued_bits = @ - amount],
              produced |-> produced, ret |-> FALSE]
    ELSE IF d.output_bits = 8
    THEN IF Len(produced) < cap
         THEN [dec |-> [d EXCEPT !.output_data = 0, !.output_bits = 0],
               produced |-> Append(produced, d.output_data), ret |-> FALSE]
         ELSE [dec |-> d, produced |-> produced, ret |-> TRUE]
    ELSE [dec |-> d, produced |-> produced, ret |-> FALSE]

\* Decoder::produce on an output slice of cap bytes of which this call has
\* written produced; TRUE is returned when the slice is full.
DecoderProduce(d, cap, produced) ==
    IF d.output_bits = 0 /\ d.queued_bits >= 8
    THEN LET transfer == Min(d.queued_bits \div 8, cap - Len(produced))
         IN  IF transfer = 0
             THEN [dec |-> d, produced |-> produced, ret |-> TRUE]
             ELSE [dec |-> [d EXCEPT !.queued_bits = @ - transfer * 8],
                   produced |-> produced \o
                       [i \in 1..transfer |-> IF d.queued_mode THEN 255 ELSE 0],
                   ret |-> FALSE]
    ELSE IF d.output_bits # 8 /\ d.queued_bits # 0
    THEN LET amount == Min(8 - d.output_bits, d.queued_bits)
             word == IF d.queued_mode THEN Pow2(amount) - 1 ELSE 0
         IN  [dec |-> [d EXCEPT !.output_data = BitOr(Shl8(@, amount), word),
                                !.output_bits = @ + amount,
                                !.queued_bits = @ - amount],
              produced |-> produced, ret |-> FALSE]
    ELSE IF d.output_bits = 8
    THEN IF Len(produced) < cap
         THEN [dec |-> [d EXCEPT !.output_data = 0, !.output_bits = 0],
               produced |-> Append(produced, d.output_data), ret |-> FALSE]
         ELSE [dec |-> d, produced |-> produced, ret |-> TRUE]
    ELSE [dec |-> d, produced |-> produced, ret |-> FALSE]

\* A mutant of DecoderTerminated: any bits left in the window count as
\* corruption, zero or not.
DecoderTerminatedLeftover(d) ==
    [tag |-> "Terminated", corrupted |-> d.symbol_bits # 0,
     unaligned |-> d.output_bits # 0]

\* DecoderState::Terminated { corrupted, unaligned } as Decoder::step builds it.
DecoderTerminated(d) ==
    [tag |-> "Terminated", corrupted |-> d.symbol_data # Zero32,
     unaligned |-> d.output_bits # 0]

\* The loop of Decoder::step.
RECURSIVE DecoderLoop(_, _, _, _, _)
DecoderLoop(d, consumed, consumed_len, cap, produced) ==
    LET c == DecoderConsume(d, consumed, consumed_len)
        p == DecoderProduce(c.dec, cap, produced)
    IN  IF c.ret
        THEN [dec |-> c.dec, consumed_len |-> c.consumed_len, produced |-> produced,
              state |-> [tag |-> "CanConsume"]]
        ELSE IF p.ret
        THEN [dec |-> p.dec, consumed_len |-> c.consumed_len, produced |-> p.produced,
              state |-> [tag |-> "CanProduce"]]
        ELSE IF p.dec.symbol_term
        THEN [dec |-> p.dec, consumed_len |-> c.consumed_len, produced |-> p.produced,
              state |-> DecoderTerminated(p.dec)]
        ELSE DecoderLoop(p.dec, consumed, c.consumed_len, cap, p.produced)

\* Decoder::step on the input slice consumed and an output slice of cap bytes.
DecoderStep(d, consumed, cap) == DecoderLoop(d, consumed, 0, cap, <<>>)

\* A mutant of partial_output_byte: the bits are left at the top of the byte.
partial_output_byteLeftAligned(d) ==
    IF d.symbol_term /\ d.output_bits # 0
    THEN [some |-> TRUE, data |-> Shl8(d.output_data, 8 - d.output_bits),
          bits |-> d.output_bits]
    ELSE [some |-> FALSE, data |-> 0, bits |-> 0]

\* Decoder::partial_output_byte
partial_output_byte(d) ==
    IF d.symbol_term /\ d.output_bits # 0
    THEN [some |-> TRUE, data |-> d.output_data, bits |-> d.output_bits]
    ELSE [some |-> FALSE, data |-> 0, bits |-> 0]

\* A mutant of DecodeSliceResult: unaligned is looked at before corrupted.
DecodeSliceResultUnalignedFirst(state, produced) ==
    CASE state.tag = "CanConsume" -> [tag |-> "TruncatedInput", bytes |-> <<>>]
      [] state.tag = "CanProduce" -> [tag |-> "NeedsMoreSpace", bytes |-> <<>>]
      [] state.tag = "Terminated" ->
            IF state.unaligned THEN [tag |-> "Unaligned", bytes |-> <<>>]
            ELSE IF state.corrupted THEN [tag |-> "Corrupted", bytes |-> <<>>]
            ELSE [tag |-> "Ok", bytes |-> produced]

\* The match of decode_from_slice on the state the step returned.
DecodeSliceResult(state, produced) ==
    CASE state.tag = "CanConsume" -> [tag |-> "TruncatedInput", bytes |-> <<>>]
      [] state.tag = "CanProduce" -> [tag |-> "NeedsMoreSpace", bytes |-> <<>>]
      [] state.tag = "Terminated" ->
            IF state.corrupted THEN [tag |-> "Corrupted", bytes |-> <<>>]
            ELSE IF state.unaligned THEN [tag |-> "Unaligned", bytes |-> <<>>]
            ELSE [tag |-> "Ok", bytes |-> produced]

\* decode_from_slice
decode_from_slice(input, cap) ==
    LET r == DecoderStep(DecoderNew, input, cap)
    IN  DecodeSliceResult(r.state, r.produced)

\* ------------------------------------------------------------ callers

\* Longest stream handed to the decoder, in symbols before the end-of-stream
\* marker.
MaxSyms == 2

\* Largest small output buffer handed to encode_into_slice, in bytes.
MaxSliceCap == 12

\* The sizes of the output slice of a step call whose caller has room bytes
\* left in its buffer: the empty slice, small ones, and all that is left.
Caps(room) == {c \in 0..MaxCap : c <= room} \cup {room}

\* Largest small input slice a caller passes to one step call, in bytes.
MaxChunk == 1

\* The sizes of the input slice of a step call whose caller has left bytes of
\* input not yet consumed: the empty slice, small ones, and all that is left.
Chunks(left) == {k \in 0..MaxChunk : k <= left} \cup {left}

\* The bytes plain inputs are made of: runs of zero bits, runs of one bits,
\* alternating bits, a lone one bit.
PlainBytes == {0, 255, 4, 85}

\* Seqs(S, n): the sequences over S of length at most n.
RECURSIVE Seqs(_, _)
Seqs(S, n) ==
    IF n = 0 THEN {<<>>}
    ELSE LET shorter == Seqs(S, n - 1)
         IN  shorter \cup {Append(q, x) : q \in {r \in shorter : Len(r) = n - 1}, x \in S}

PlainInputs == Seqs(PlainBytes, MaxInput)

\* The 24 bits of a long symbol with the 12-bit payload v.
LongSymbol(v) == [i \in 1..24 |-> IF i <= 12 THEN 0 ELSE (v \div Pow2(24 - i)) % 2]

\* The pieces encoded streams are made of, as bits: short symbols of both
\* modes (a run of one zero bit followed by a run of seven one bits fills a
\* byte exactly) and a long symbol with a run length.  The other long
\* symbols are decoded one call of consume at a time, under SpecSym.
StreamPieces ==
    { <<1, 0>>, <<0, 0, 0, 0, 0, 0, 1>>, <<0, 0, 0, 1, 0, 1, 1, 0>>,
      LongSymbol(3) }

\* What follows the end-of-stream marker before the zero padding.
StreamTails == { <<>>, <<1>> }

RECURSIVE Flatten(_)
Flatten(q) == IF q = <<>> THEN <<>> ELSE Head(q) \o Flatten(Tail(q))

\* The bytes holding the bits b, most significant bit first, the last byte
\* padded with zero bits.
PackBits(b) ==
    [k \in 1..((Len(b) + 7) \div 8) |->
        LET bit(j) == IF 8 * (k - 1) + j <= Len(b) THEN b[8 * (k - 1) + j] ELSE 0
        IN  128 * bit(1) + 64 * bit(2) + 32 * bit(3) + 16 * bit(4)
              + 8 * bit(5) + 4 * bit(6) + 2 * bit(7) + bit(8)]

\* Bit i (from 1, most significant bit of the first byte first) of bytes.
BitAt(bytes, i) == (bytes[(i - 1) \div 8 + 1] \div Pow2(7 - ((i - 1) % 8))) % 2

\* The streams handed to the decoder: pieces, the end-of-stream marker, a tail.
Streams ==
    { PackBits(Flatten(q) \o LongSymbol(PayloadEnd) \o t) :
        q \in Seqs(StreamPieces, MaxSyms), t \in StreamTails }

\* The slices passed to a codec that has already terminated.
LateSlices == { <<>>, <<255, 0>> }

VARIABLES
    encoder,    \* the Encoder
    e_input,    \* the plain bytes the encoder's caller has to encode
    e_pos,      \* how many of them the encoder has consumed
    e_out,      \* the bytes the encoder has produced, over all calls
    e_ret,      \* the last Encoder::step call: its slices and what it returned
    decoder,    \* the Decoder
    d_input,    \* the stream the decoder's caller has to decode
    d_pos,      \* how many of its bytes the decoder has consumed
    d_out,      \* the bytes the decoder has produced, over all calls
    d_ret,      \* the last Decoder::step call: its slices and what it returned
    s_src,      \* the slice helpers' caller: the plain bytes or the stream it has
    s_enc,      \* what encode_into_slice returned
    s_dec       \* what decode_from_slice returned

vars == <<encoder, e_input, e_pos, e_out, e_ret,
          decoder, d_input, d_pos, d_out, d_ret, s_src, s_enc, s_dec>>

enc_vars == <<encoder, e_input, e_pos, e_out, e_ret>>
dec_vars == <<decoder, d_input, d_pos, d_out, d_ret>>
slice_vars == <<s_src, s_enc, s_dec>>

NoCall == [in_len |-> 0, cap |-> 0, consumed |-> 0, produced |-> 0,
           state |-> [tag |-> "None"], ended |-> FALSE, again |-> FALSE]

NoResult == [tag |-> "None", bytes |-> <<>>, cap |-> 0, state |-> [tag |-> "None"],
             produced_len |-> 0]

EncoderIdle ==
    /\ encoder = EncoderNew /\ e_input = <<>> /\ e_pos = 0 /\ e_out = <<>>
    /\ e_ret = NoCall

DecoderIdle ==
    /\ decoder = DecoderNew /\ d_input = <<>> /\ d_pos = 0 /\ d_out = <<>>
    /\ d_ret = NoCall

SliceIdle ==
    /\ s_src = [kind |-> "plain", bytes |-> <<>>] /\ s_enc = NoResult
    /\ s_dec = NoResult

\* ---- the encoder's caller (tests.rs, encode_streaming)

\* Encoder::set_consumed_bytes_end
SetConsumedBytesEnd ==
    /\ ~encoder.queued_term
    /\ e_ret.state.tag # "Terminated"
    /\ encoder' = EncoderSetConsumedBytesEnd(encoder)
    /\ UNCHANGED <<e_input, e_pos, e_out, e_ret>>

\* Encoder::reset, at any time: the encoder is new again.  It remembers
\* nothing of the stream it was encoding, so the caller drops what that stream
\* has produced and starts over on its input; e_pos, e_out and e_ret describe
\* the stream being encoded, and no call has been made for the new one.
EncoderReset ==
    /\ encoder' = EncoderNew
    /\ e_pos' = 0 /\ e_out' = <<>> /\ e_ret' = NoCall
    /\ UNCHANGED e_input

\* One Encoder::step call on the next k unconsumed input bytes and an output
\* slice of cap bytes.  Once the end of the input has been signalled the
\* slice holds all that is left of the input.
EncoderStepCall ==
    /\ e_ret.state.tag # "Terminated"
    /\ \E k \in Chunks(Len(e_input) - e_pos), cap \in Caps(EncoderBuffer - Len(e_out)) :
          /\ encoder.queued_term => k = Len(e_input) - e_pos
          /\ LET r == EncoderStep(encoder, SubSeq(e_input, e_pos + 1, e_pos + k), cap)
             IN  /\ encoder' = r.enc
                 /\ e_pos' = e_pos + r.consumed_len
                 /\ e_out' = e_out \o r.produced
                 /\ e_ret' = [in_len |-> k, cap |-> cap,
                              consumed |-> r.consumed_len,
                              produced |-> Len(r.produced),
                              state |-> [tag |-> r.state],
                              ended |-> encoder.queued_term, again |-> FALSE]
    /\ UNCHANGED e_input

\* One more Encoder::step call after a call has returned Terminated.
EncoderStepAgain ==
    /\ e_ret.state.tag = "Terminated"
    /\ \E slice \in LateSlices, cap \in Caps(EncoderBuffer - Len(e_out)) :
          LET r == EncoderStep(encoder, slice, cap)
          IN  /\ encoder' = r.enc
              /\ e_pos' = e_pos + r.consumed_len
              /\ e_out' = e_out \o r.produced
              /\ e_ret' = [in_len |-> Len(slice), cap |-> cap,
                           consumed |-> r.consumed_len,
                           produced |-> Len(r.produced),
                           state |-> [tag |-> r.state],
                           ended |-> encoder.queued_term, again |-> TRUE]
    /\ UNCHANGED e_input

\* The caller that does not stream: encode_into_slice on the whole input and
\* an output buffer of cap bytes, in place of the step calls.
EncodeWholeCall ==
    /\ e_ret = NoCall /\ ~encoder.queued_term
    /\ s_enc.tag = "None"
    /\ \E cap \in Caps(EncoderBuffer) :
          LET r == encode_into_slice(e_input, cap)
          IN  s_enc' = [tag |-> r.tag, bytes |-> r.bytes, cap |-> cap,
                        state |-> [tag |-> "None"], produced_len |-> Len(r.bytes)]
    /\ UNCHANGED <<s_src, s_dec>>

InitEnc ==
    /\ encoder = EncoderNew /\ e_input \in PlainInputs /\ e_pos = 0
    /\ e_out = <<>> /\ e_ret = NoCall
    /\ DecoderIdle /\ SliceIdle

NextEnc ==
    \/ s_enc.tag = "None" /\ SetConsumedBytesEnd /\ UNCHANGED <<dec_vars, slice_vars>>
    \/ s_enc.tag = "None" /\ EncoderStepCall /\ UNCHANGED <<dec_vars, slice_vars>>
    \/ s_enc.tag = "None" /\ EncoderStepAgain /\ UNCHANGED <<dec_vars, slice_vars>>
    \/ s_enc.tag = "None" /\ EncoderReset /\ UNCHANGED <<dec_vars, slice_vars>>
    \/ EncodeWholeCall /\ UNCHANGED <<enc_vars, dec_vars>>

SpecEnc == InitEnc /\ [][NextEnc]_vars

\* ---- the decoder's caller (tests.rs, decode_streaming)

\* Decoder::reset, at any time: the decoder is new again.  It remembers
\* nothing of the stream it was decoding, so the caller drops what it has
\* decoded and starts over on the stream; d_pos, d_out and d_ret describe the
\* stream being decoded, and no call has been made for the new one.
DecoderReset ==
    /\ decoder' = DecoderNew
    /\ d_pos' = 0 /\ d_out' = <<>> /\ d_ret' = NoCall
    /\ UNCHANGED d_input

\* One Decoder::step call on the next k unconsumed stream bytes and an output
\* slice of cap bytes.
DecoderStepCall ==
    /\ d_ret.state.tag # "Terminated"
    /\ \E k \in Chunks(Len(d_input) - d_pos), cap \in Caps(DecoderBuffer - Len(d_out)) :
          LET r == DecoderStep(decoder, SubSeq(d_input, d_pos + 1, d_pos + k), cap)
          IN  /\ decoder' = r.dec
              /\ d_pos' = d_pos + r.consumed_len
              /\ d_out' = d_out \o r.produced
              /\ d_ret' = [in_len |-> k, cap |-> cap,
                           consumed |-> r.consumed_len,
                           produced |-> Len(r.produced),
                           state |-> r.state, ended |-> FALSE, again |-> FALSE]
    /\ UNCHANGED d_input

\* One more Decoder::step call after a call has returned Terminated.
DecoderStepAgain ==
    /\ d_ret.state.tag = "Terminated"
    /\ \E slice \in LateSlices, cap \in Caps(DecoderBuffer - Len(d_out)) :
          LET r == DecoderStep(decoder, slice, cap)
          IN  /\ decoder' = r.dec
              /\ d_pos' = d_pos + r.consumed_len
              /\ d_out' = d_out \o r.produced
              /\ d_ret' = [in_len |-> Len(slice), cap |-> cap,
                           consumed |-> r.consumed_len,
                           produced |-> Len(r.produced),
                           state |-> r.state, ended |-> FALSE, again |-> TRUE]
    /\ UNCHANGED d_input

InitDec ==
    /\ decoder = DecoderNew /\ d_input \in Streams /\ d_pos = 0
    /\ d_out = <<>> /\ d_ret = NoCall
    /\ EncoderIdle /\ SliceIdle

NextDec ==
    \/ DecoderStepCall /\ UNCHANGED <<enc_vars, slice_vars>>
    \/ DecoderStepAgain /\ UNCHANGED <<enc_vars, slice_vars>>
    \/ DecoderReset /\ UNCHANGED <<enc_vars, slice_vars>>

SpecDec == InitDec /\ [][NextDec]_vars

\* ---- the slice helpers' caller (tests.rs, encode_slice_round_trip and
\* decode_slice_with_error)

\* The sizes of the output buffers handed to the slice helpers.
SliceCaps == (0..MaxSliceCap) \cup {BigCap}

\* The streams handed to decode_from_slice: the streams and what is left of
\* them when they are cut short.
SliceStreams == UNION { {SubSeq(q, 1, n) : n \in 0..Len(q)} : q \in Streams }

\* encode_into_slice on the plain bytes and an output buffer of cap bytes.
EncodeIntoSliceCall ==
    /\ s_src.kind = "plain"
    /\ s_enc.tag = "None"
    /\ \E cap \in SliceCaps :
          LET r == encode_into_slice(s_src.bytes, cap)
          IN  s_enc' = [tag |-> r.tag, bytes |-> r.bytes, cap |-> cap,
                        state |-> [tag |-> "None"], produced_len |-> Len(r.bytes)]
    /\ UNCHANGED <<s_src, s_dec>>

\* decode_from_slice on the stream (the one given, or the one
\* encode_into_slice returned) and an output buffer of cap bytes.  The state
\* and the length the step inside returned are kept beside the result.
DecodeFromSliceCall ==
    /\ s_dec.tag = "None"
    /\ s_src.kind = "plain" => s_enc.tag = "Ok"
    /\ \E cap \in SliceCaps :
          LET input == IF s_src.kind = "plain" THEN s_enc.bytes ELSE s_src.bytes
              r == decode_from_slice(input, cap)
              t == DecoderStep(DecoderNew, input, cap)
          IN  s_dec' = [tag |-> r.tag, bytes |-> r.bytes, cap |-> cap,
                        state |-> t.state, produced_len |-> Len(t.produced)]
    /\ UNCHANGED <<s_src, s_enc>>

InitSlice ==
    /\ \/ \E b \in PlainInputs : s_src = [kind |-> "plain", bytes |-> b]
       \/ \E q \in SliceStreams : s_src = [kind |-> "stream", bytes |-> q]
    /\ s_enc = NoResult /\ s_dec = NoResult
    /\ EncoderIdle /\ DecoderIdle

NextSlice ==
    \/ EncodeIntoSliceCall /\ UNCHANGED <<enc_vars, dec_vars>>
    \/ DecodeFromSliceCall /\ UNCHANGED <<enc_vars, dec_vars>>

SpecSlice == InitSlice /\ [][NextSlice]_vars

\* The default specification: the encoder's streaming caller.
Spec == SpecEnc

\* ---- the encoder's caller that drains its buffer after every call

\* Largest output buffer the draining caller passes to a step call, in bytes.
MaxDrain == 2

\* One Encoder::step call on all of the input not yet consumed and a
\* non-empty output buffer of cap bytes, which the caller empties after the
\* call: e_out holds the bytes of this call only.
EncoderDrainCall ==
    /\ e_ret.state.tag # "Terminated"
    /\ \E cap \in 1..MaxDrain :
          LET rest == SubSeq(e_input, e_pos + 1, Len(e_input))
              r == EncoderStep(encoder, rest, cap)
          IN  /\ encoder' = r.enc
              /\ e_pos' = e_pos + r.consumed_len
              /\ e_out' = r.produced
              /\ e_ret' = [in_len |-> Len(rest), cap |-> cap,
                           consumed |-> r.consumed_len,
                           produced |-> Len(r.produced),
                           state |-> [tag |-> r.state],
                           ended |-> encoder.queued_term, again |-> FALSE]
    /\ UNCHANGED e_input

NextDrain ==
    \/ SetConsumedBytesEnd /\ UNCHANGED <<dec_vars, slice_vars>>
    \/ EncoderDrainCall /\ UNCHANGED <<dec_vars, slice_vars>>

\* The caller keeps calling until a step has returned Terminated: weak
\* fairness of the step call, written with the condition under which a call
\* can be made (no step has returned Terminated) in place of ENABLED.
DrainFairness ==
    \/ []<><<EncoderDrainCall /\ UNCHANGED <<dec_vars, slice_vars>>>>_vars
    \/ []<>(e_ret.state.tag = "Terminated")

\* The caller signals the end of its input at some point and keeps calling;
\* it encodes one stream to its end and never resets the encoder.
SpecDrain ==
    /\ InitEnc /\ [][NextDrain]_vars
    /\ WF_vars(SetConsumedBytesEnd /\ UNCHANGED <<dec_vars, slice_vars>>)
    /\ DrainFairness

\* ---- the encoder's caller at the end of a long run

\* The bytes of a run the encoder has consumed before the byte that ends it:
\* none, one, the numbers around which the code of the run changes (4095,
\* 4106, 8191 and 12284 bits) and those of runs that take two or three
\* continuations (8212, 12318 and 24568 bits).
RunBytes == {0, 1, 511, 512, 513, 1023, 1026, 1535, 1536, 1539, 3071}

\* The encoder after k bytes of 0x00 (bit = 0) or of 0xFF (bit = 1) and
\* nothing else: the run is queued, and the no-op symbol that precedes a
\* leading run of one bits has been flushed.  With k = 0 it is the new encoder.
EncoderInRun(bit, k) ==
    [EncoderNew EXCEPT !.queued_mode = (bit = 1 /\ k > 0), !.queued_bits = 8 * k,
                       !.output_data = IF bit = 1 /\ k > 0 THEN 255 ELSE 0]

\* The byte that ends a run of bit: lead more bits of the run, then the other
\* bit to the end of the byte.
RunEnd(bit, lead) ==
    IF bit = 0 THEN Pow2(8 - lead) - 1 ELSE 256 - Pow2(8 - lead)

\* One Encoder::step call on the byte that ends the run.
EncoderRunCall ==
    /\ s_src.kind = "run" /\ e_ret = NoCall
    /\ LET r == EncoderStep(encoder, e_input, EncoderBuffer)
       IN  /\ encoder' = r.enc
           /\ e_pos' = e_pos + r.consumed_len
           /\ e_out' = e_out \o r.produced
           /\ e_ret' = [in_len |-> Len(e_input), cap |-> EncoderBuffer,
                        consumed |-> r.consumed_len,
                        produced |-> Len(r.produced),
                        state |-> [tag |-> r.state],
                        ended |-> encoder.queued_term, again |-> FALSE]
    /\ UNCHANGED <<e_input, s_src, s_enc, s_dec>>

\* s_src describes the run: its bit, its length, and the bits emitted before
\* its code (the no-op symbol, when the input starts with a one bit).
InitRun ==
    /\ \E bit \in {0, 1}, k \in RunBytes, lead \in 0..7 :
          /\ 8 * k + lead > 0
          /\ encoder = EncoderInRun(bit, k)
          /\ e_input = << RunEnd(bit, lead) >>
          /\ s_src = [kind |-> "run", bit |-> bit, len |-> 8 * k + lead,
                      skip |-> IF bit = 1 /\ k = 0 THEN 24 ELSE 0]
    /\ e_pos = 0 /\ e_out = <<>> /\ e_ret = NoCall
    /\ s_enc = NoResult /\ s_dec = NoResult
    /\ DecoderIdle

\* The decoder's caller decodes what the encoder has emitted for the run,
\* whole bytes and the bits still in symbol_data, with the no-op symbol the
\* encoder had emitted before a leading run of one bits and the end-of-stream
\* marker after it, in one Decoder::step call.
DecoderRunCall ==
    /\ s_src.kind = "run" /\ e_ret # NoCall /\ d_ret = NoCall
    /\ LET emitted == [i \in 1..(8 * Len(e_out) + encoder.symbol_bits) |->
                          IF i <= 8 * Len(e_out) THEN BitAt(e_out, i)
                          ELSE encoder.symbol_data[i - 8 * Len(e_out)]]
           lead == IF s_src.bit = 1 /\ s_src.skip = 0
                   THEN LongSymbol(PayloadNoop) ELSE <<>>
           stream == PackBits(lead \o emitted \o LongSymbol(PayloadEnd))
           r == DecoderStep(DecoderNew, stream, BigCap)
       IN  /\ decoder' = r.dec
           /\ d_input' = stream
           /\ d_pos' = r.consumed_len
           /\ d_out' = r.produced
           /\ d_ret' = [in_len |-> Len(stream), cap |-> BigCap,
                        consumed |-> r.consumed_len,
                        produced |-> Len(r.produced),
                        state |-> r.state, ended |-> FALSE, again |-> FALSE]

\* The decoder may be reset and the emitted bits decoded again.  The encoder
\* of this caller stands for one that has been fed the run byte by byte, and
\* the caller makes its one call on it: the resets of an encoder are those of
\* SpecEnc and SpecCalls.
NextRun ==
    \/ EncoderRunCall /\ UNCHANGED dec_vars
    \/ DecoderRunCall /\ UNCHANGED <<enc_vars, slice_vars>>
    \/ s_src.kind = "run" /\ DecoderReset /\ UNCHANGED <<enc_vars, slice_vars>>

SpecRun == InitRun /\ [][NextRun]_vars

\* ---- both streaming callers: one encodes plain bytes, the other decodes
\* the streams the encoder makes of them (tests.rs, encode_streaming and
\* decode_streaming)

\* The complete encodings of the plain inputs.
EncodedInputs ==
    { EncoderStep(EncoderSetConsumedBytesEnd(EncoderNew), b, BigCap).produced :
        b \in PlainInputs }

InitPair ==
    \/ InitEnc
    \/ /\ decoder = DecoderNew /\ d_input \in EncodedInputs /\ d_pos = 0
       /\ d_out = <<>> /\ d_ret = NoCall
       /\ EncoderIdle /\ SliceIdle

NextPair ==
    \/ DecoderIdle /\ NextEnc
    \/ EncoderIdle /\ NextDec

SpecPair == InitPair /\ [][NextPair]_vars

\* ---- the loop of Decoder::step, one call of consume or produce at a time

\* The decoder reads a long symbol when the window starts with this many
\* zero bits.
LongPrefix == 12

\* The doubled-width code with p zero bits, a one bit and the p + 1 bits of v.
WideSymbol(p, v) ==
    [i \in 1..(2 * (p + 1)) |->
        IF i <= p THEN 0
        ELSE IF i = p + 1 THEN 1
        ELSE (v \div Pow2(2 * (p + 1) - i)) % 2]

\* The unary code with p zero bits and a one bit.
UnarySymbol(p) == [i \in 1..(p + 1) |-> IF i <= p THEN 0 ELSE 1]

\* The symbols under test: every short code of both modes (the doubled-width
\* ones with the least, the next and the greatest payload), and the long
\* symbols with the least payloads, the greatest run length, the
\* continuation, the no-op and the end-of-stream marker.
SymPieces ==
    { WideSymbol(p, v) : p \in 0..(LongPrefix - 1), v \in {0, 1} }
      \cup { WideSymbol(p, Pow2(p + 1) - 1) : p \in 0..(LongPrefix - 1) }
      \cup { UnarySymbol(p) : p \in 0..(LongPrefix - 1) }
      \cup { LongSymbol(v) : v \in {0, 3, PayloadCont - 1, PayloadCont,
                                    PayloadNoop, PayloadEnd} }

\* What precedes the symbol under test: nothing, a no-op or a short run (the
\* symbol is then parsed in mode 1), a continuation or two short runs (mode 0).
SymLeads ==
    { <<>>, LongSymbol(PayloadNoop), <<1, 0>>, LongSymbol(PayloadCont), <<1, 1, 1>> }

SymStreams ==
    { PackBits(l \o s \o LongSymbol(PayloadEnd)) : l \in SymLeads, s \in SymPieces }

\* Decoder::consume as the loop of Decoder::step calls it; the decoder it
\* was called on is kept beside what it returned.
DecoderConsumeCall ==
    /\ s_src.kind = "symbols"
    /\ d_ret.state.tag \in {"None", "Produced"}
    /\ LET c == DecoderConsume(decoder, d_input, d_pos)
       IN  /\ decoder' = c.dec
           /\ d_pos' = c.consumed_len
           /\ d_ret' = [in_len |-> Len(d_input), cap |-> BigCap,
                        consumed |-> c.consumed_len - d_pos,
                        produced |-> 0,
                        state |-> [tag |-> IF c.ret THEN "CanConsume" ELSE "Consumed",
                                   before |-> decoder],
                        ended |-> FALSE, again |-> FALSE]
    /\ UNCHANGED <<d_input, d_out>>

\* Decoder::produce as the loop calls it next, and the test of symbol_term
\* that ends the loop.
DecoderProduceCall ==
    /\ s_src.kind = "symbols"
    /\ d_ret.state.tag = "Consumed"
    /\ LET p == DecoderProduce(decoder, BigCap, d_out)
       IN  /\ decoder' = p.dec
           /\ d_out' = p.produced
           /\ d_ret' = [in_len |-> Len(d_input), cap |-> BigCap,
                        consumed |-> 0,
                        produced |-> Len(p.produced) - Len(d_out),
                        state |-> IF p.ret THEN [tag |-> "CanProduce", before |-> decoder]
                                  ELSE IF p.dec.symbol_term
                                  THEN DecoderTerminated(p.dec)
                                  ELSE [tag |-> "Produced", before |-> decoder],
                        ended |-> FALSE, again |-> FALSE]
    /\ UNCHANGED <<d_input, d_pos>>

InitSym ==
    /\ decoder = DecoderNew /\ d_input \in SymStreams /\ d_pos = 0
    /\ d_out = <<>> /\ d_ret = NoCall
    /\ s_src = [kind |-> "symbols", bytes |-> <<>>]
    /\ s_enc = NoResult /\ s_dec = NoResult
    /\ EncoderIdle

NextSym ==
    \/ DecoderConsumeCall /\ UNCHANGED <<enc_vars, slice_vars>>
    \/ DecoderProduceCall /\ UNCHANGED <<enc_vars, slice_vars>>
    \/ DecoderReset /\ UNCHANGED <<enc_vars, slice_vars>>

SpecSym == InitSym /\ [][NextSym]_vars

\* ---- the decoder under both callers: whole step calls on slices of a
\* stream, and the calls step makes, one at a time, on the symbols under test

InitDecAll == InitDec \/ InitSym

NextDecAll ==
    \/ s_src.kind = "plain" /\ NextDec
    \/ s_src.kind = "symbols" /\ NextSym

SpecDecAll == InitDecAll /\ [][NextDecAll]_vars

\* ---------------------------------------------------------------------------
\* The calls the two step loops make, one at a time.  The encoder's loop calls
\* Encoder::consume and Encoder::produce in turn; a call that returns true ends
\* the step call, and the caller's next step call starts with consume again,
\* on whatever input and output slices the caller passes then.  d_ret and
\* e_ret record the call made last and the codec as it was before that call.
\* ---------------------------------------------------------------------------

\* Encoder::consume as the loop calls it: first in a step call, or after a
\* produce call that returned false.  The caller's slice holds no byte or all
\* the bytes left; after set_consumed_bytes_end it holds all that is left.
EncoderConsumeCall ==
    /\ s_src.kind = "calls"
    /\ e_ret.state.tag \in {"None", "Produced", "CanConsume", "CanProduce"}
    /\ \E k \in {0, Len(e_input) - e_pos} :
          /\ encoder.queued_term => k = Len(e_input) - e_pos
          /\ LET c == EncoderConsume(encoder, SubSeq(e_input, 1, e_pos + k), e_pos)
             IN  /\ encoder' = c.enc
                 /\ e_pos' = c.consumed_len
                 /\ e_ret' = [in_len |-> k, cap |-> 0,
                              consumed |-> c.consumed_len - e_pos,
                              produced |-> 0,
                              state |-> [tag |-> IF c.ret THEN "CanConsume"
                                                 ELSE "Consumed",
                                         before |-> encoder],
                              ended |-> encoder.queued_term, again |-> FALSE]
    /\ UNCHANGED <<e_input, e_out>>

\* Encoder::produce as the loop calls it next, on an output slice with cap
\* bytes left, and the test of output_term that ends the loop.
EncoderProduceCall ==
    /\ s_src.kind = "calls"
    /\ e_ret.state.tag = "Consumed"
    /\ \E cap \in Caps(EncoderBuffer - Len(e_out)) :
          LET p == EncoderProduce(encoder, cap, <<>>)
          IN  /\ encoder' = p.enc
              /\ e_out' = e_out \o p.produced
              /\ e_ret' = [in_len |-> 0, cap |-> cap,
                           consumed |-> 0,
                           produced |-> Len(p.produced),
                           state |-> [tag |-> IF p.ret THEN "CanProduce"
                                              ELSE IF p.enc.output_term
                                              THEN "Terminated" ELSE "Produced",
                                      before |-> encoder],
                           ended |-> encoder.queued_term, again |-> FALSE]
    /\ UNCHANGED <<e_input, e_pos>>

\* Encoder::set_consumed_bytes_end, between two step calls.
EncoderEndCall ==
    /\ s_src.kind = "calls"
    /\ e_ret.state.tag \in {"None", "CanConsume", "CanProduce"}
    /\ ~encoder.queued_term
    /\ encoder' = EncoderSetConsumedBytesEnd(encoder)
    /\ e_ret' = [e_ret EXCEPT !.state = [tag |-> "None"]]
    /\ UNCHANGED <<e_input, e_pos, e_out>>

\* The encoder starts new on a short input, or in the middle of a long run
\* with the byte that ends the run as its input.
InitCalls ==
    /\ \/ encoder = EncoderNew /\ e_input \in PlainInputs
       \/ \E bit \in {0, 1}, k \in RunBytes, lead \in 0..7 :
             /\ encoder = EncoderInRun(bit, k)
             /\ e_input = << RunEnd(bit, lead) >>
    /\ e_pos = 0 /\ e_out = <<>> /\ e_ret = NoCall
    /\ s_src = [kind |-> "calls", bytes |-> <<>>]
    /\ s_enc = NoResult /\ s_dec = NoResult
    /\ DecoderIdle

NextCalls ==
    \/ EncoderConsumeCall /\ UNCHANGED <<dec_vars, slice_vars>>
    \/ EncoderProduceCall /\ UNCHANGED <<dec_vars, slice_vars>>
    \/ EncoderEndCall /\ UNCHANGED <<dec_vars, slice_vars>>
    \/ DecoderConsumeCall /\ UNCHANGED <<enc_vars, slice_vars>>
    \/ DecoderProduceCall /\ UNCHANGED <<enc_vars, slice_vars>>
    \/ s_src.kind = "calls" /\ EncoderReset /\ UNCHANGED <<dec_vars, slice_vars>>
    \/ s_src.kind = "symbols" /\ DecoderReset /\ UNCHANGED <<enc_vars, slice_vars>>

\* The calls of either codec: the decoder's on the symbol streams of SpecSym,
\* the encoder's on the inputs of InitCalls.
SpecCalls == (InitSym \/ InitCalls) /\ [][NextCalls]_vars

\* ------------------------------------------------------------ claims

\* The complete encoding of the plain bytes b: one step over all of b with
\* the end of the input signalled and a buffer that is never filled.
CompleteEncoding(b) ==
    EncoderStep(EncoderSetConsumedBytesEnd(EncoderNew), b, BigCap).produced

\* The bits of bytes end with the end-of-stream symbol (12 zero bits, then 12
\* one bits) followed only by fewer than 8 zero bits.
EndsWithMarker(bytes) ==
    LET n == 8 * Len(bytes)
    IN  \E pad \in 0..7 :
           /\ n - pad >= 24
           /\ \A i \in (n - pad + 1)..n : BitAt(bytes, i) = 0
           /\ \A i \in (n - pad - 11)..(n - pad) : BitAt(bytes, i) = 1
           /\ \A i \in (n - pad - 23)..(n - pad - 12) : BitAt(bytes, i) = 0

\* C1: round trip. encode_into_slice(b) with a large buffer returns Ok with a
\* stream, and decode_from_slice of that stream with a buffer that holds b
\* returns Ok with exactly the bytes of b.
C1_RoundTrip ==
    /\ (s_src.kind = "plain" /\ s_enc.tag # "None" /\ s_enc.cap = BigCap)
          => s_enc.tag = "Ok"
    /\ (s_src.kind = "plain" /\ s_dec.tag # "None" /\ s_dec.cap >= Len(s_src.bytes))
          => /\ s_dec.tag = "Ok"
             /\ s_dec.bytes = s_src.bytes
             /\ s_dec.produced_len = Len(s_src.bytes)

C1_Witness ==
    /\ s_src.kind = "plain" /\ Len(s_src.bytes) = 2
    /\ s_src.bytes[1] # s_src.bytes[2]
    /\ s_enc.tag = "Ok" /\ s_dec.tag = "Ok" /\ s_dec.cap = 2

\* C2 (as claimed): once a step has returned Terminated, the bytes the
\* encoder has produced end with the end-of-stream symbol followed only by
\* fewer than 8 zero padding bits.
C2_EndsWithMarker ==
    e_ret.state.tag = "Terminated" => EndsWithMarker(e_out)

\* C3 (as claimed): however the input is cut into chunks and the output into
\* slices, the bytes produced up to Terminated are the bytes one step over the
\* whole input with a large buffer produces.
C3_EncoderResumable ==
    e_ret.state.tag = "Terminated" => e_out = CompleteEncoding(e_input)

\* C4: decoder resumability. However the stream is cut into chunks and the
\* output into slices, once a step returns Terminated the bytes produced, the
\* bytes consumed, the flags and the partial output byte are those of one step
\* over the whole stream with a large buffer.
C4_DecoderResumable ==
    d_ret.state.tag = "Terminated" =>
        LET one == DecoderStep(DecoderNew, d_input, BigCap)
        IN  /\ one.state = d_ret.state
            /\ one.produced = d_out
            /\ one.consumed_len = d_pos
            /\ partial_output_byte(one.dec) = partial_output_byte(decoder)

C4_Witness ==
    /\ d_ret.state.tag = "Terminated" /\ ~d_ret.again
    /\ d_ret.consumed < d_pos
    /\ 0 < d_ret.produced /\ d_ret.produced < Len(d_out)
    /\ partial_output_byte(decoder).some

\* C5: once set_consumed_bytes_end has been called no step returns
\* CanConsume, and encode_into_slice returns only Ok or NeedsMoreSpace.
C5_NoCanConsumeAfterEnd ==
    /\ e_ret.ended => e_ret.state.tag # "CanConsume"
    /\ s_enc.tag # "None" => s_enc.tag \in {"Ok", "NeedsMoreSpace"}

C5_Witness ==
    /\ e_ret.ended /\ e_ret.state.tag = "CanProduce"
    /\ e_ret.in_len = 0 /\ e_pos = Len(e_input) /\ e_pos > 0

\* C6: decoder terminal stability. After a step has returned Terminated every
\* further step (a transition that records a call in d_ret) returns
\* (0, 0, Terminated) with the same flags, writes nothing and leaves the
\* decoder unchanged.
C6_DecoderTerminalStable ==
    [][(d_ret.state.tag = "Terminated" /\ d_ret' # NoCall) =>
          /\ decoder' = decoder
          /\ d_out' = d_out
          /\ d_pos' = d_pos
          /\ d_ret'.consumed = 0 /\ d_ret'.produced = 0
          /\ d_ret'.state = d_ret.state
          /\ partial_output_byte(decoder') = partial_output_byte(decoder)]_vars

C6_Witness ==
    /\ d_ret.state.tag = "Terminated" /\ d_ret.again
    /\ d_ret.in_len > 0 /\ d_ret.cap > 0
    /\ d_ret.state.unaligned

\* C7: encoder terminal stability. After a step has returned Terminated every
\* further step (a transition that records a call in e_ret) returns
\* (0, 0, Terminated), consumes nothing, writes nothing and leaves the
\* encoder unchanged.
C7_EncoderTerminalStable ==
    [][(e_ret.state.tag = "Terminated" /\ e_ret' # NoCall) =>
          /\ encoder' = encoder
          /\ e_out' = e_out
          /\ e_pos' = e_pos
          /\ e_ret'.consumed = 0 /\ e_ret'.produced = 0
          /\ e_ret'.state.tag = "Terminated"]_vars

C7_Witness ==
    /\ e_ret.state.tag = "Terminated" /\ e_ret.again
    /\ e_ret.in_len > 0 /\ e_ret.cap > 0

\* C8: decode_from_slice classifies the state its step returned: CanConsume
\* as TruncatedInput, CanProduce as NeedsMoreSpace, Terminated as Corrupted
\* when corrupted (also when unaligned), as Unaligned when only unaligned, and
\* as Ok with the produced length otherwise.
C8_DecodeSliceClassifies ==
    s_dec.tag # "None" =>
        LET st == s_dec.state
        IN  /\ s_dec.tag \in {"TruncatedInput", "NeedsMoreSpace", "Corrupted",
                              "Unaligned", "Ok"}
            /\ st.tag = "CanConsume" => s_dec.tag = "TruncatedInput"
            /\ st.tag = "CanProduce" => s_dec.tag = "NeedsMoreSpace"
            /\ st.tag = "Terminated" =>
                  /\ st.corrupted => s_dec.tag = "Corrupted"
                  /\ (~st.corrupted /\ st.unaligned) => s_dec.tag = "Unaligned"
                  /\ (~st.corrupted /\ ~st.unaligned) =>
                        s_dec.tag = "Ok" /\ Len(s_dec.bytes) = s_dec.produced_len

C8_Witness ==
    /\ s_dec.tag = "Corrupted"
    /\ s_dec.state.tag = "Terminated" /\ s_dec.state.unaligned

\* C9: encode_into_slice returns NeedsMoreSpace exactly when the buffer is
\* shorter than the complete encoding; otherwise it returns Ok with the
\* complete encoding (a buffer of exactly its length suffices).
C9_NeedsMoreSpaceIffShort ==
    (s_enc.tag # "None" /\ s_src.kind = "plain") =>
        LET full == CompleteEncoding(s_src.bytes)
        IN  /\ s_enc.tag = "NeedsMoreSpace" <=> s_enc.cap < Len(full)
            /\ s_enc.cap >= Len(full) => s_enc.tag = "Ok" /\ s_enc.bytes = full

C9_Witness ==
    /\ s_enc.tag = "Ok" /\ s_enc.cap = Len(s_enc.bytes) /\ Len(s_enc.bytes) > 3

\* C10: when a step returns Terminated, the 24 bits before the bits left in
\* the window are the end-of-stream marker, and corrupted holds exactly when
\* one of the bits after the marker in the last consumed byte is set;
\* corrupted and unaligned can hold together.
C10_CorruptedIffTailBits ==
    d_ret.state.tag = "Terminated" =>
        LET last == 8 * d_pos
            mark == last - decoder.symbol_bits
        IN  /\ mark >= 24
            /\ \A i \in (mark - 23)..(mark - 12) : BitAt(d_input, i) = 0
            /\ \A i \in (mark - 11)..mark : BitAt(d_input, i) = 1
            /\ d_ret.state.corrupted <=>
                  \E i \in (mark + 1)..last : BitAt(d_input, i) = 1

C10_Witness ==
    /\ d_ret.state.tag = "Terminated"
    /\ d_ret.state.corrupted /\ d_ret.state.unaligned

\* ---- the runs of a stream

\* The runs Decoder::consume queues while it parses the stream consumed from
\* consumed_len on, in order, each with the bit of its mode and its length;
\* every run is taken off the queue before the next symbol is parsed.
RECURSIVE DecoderRuns(_, _, _)
DecoderRuns(d, consumed, consumed_len) ==
    LET c == DecoderConsume(d, consumed, consumed_len)
        run == IF c.dec.queued_bits > 0
               THEN << [bit |-> IF c.dec.queued_mode THEN 1 ELSE 0,
                        len |-> c.dec.queued_bits] >>
               ELSE << >>
    IN  IF c.ret THEN << >>
        ELSE IF c.dec.symbol_term THEN run
        ELSE run \o DecoderRuns([c.dec EXCEPT !.queued_bits = 0], consumed,
                                c.consumed_len)

\* The runs of the stream handed to the decoder's caller.
StreamRuns == DecoderRuns(DecoderNew, d_input, 0)

\* The number of bits of the runs.
RECURSIVE RunBits(_)
RunBits(runs) == IF runs = << >> THEN 0 ELSE Head(runs).len + RunBits(Tail(runs))

\* Bit i (from 1) of the runs laid end to end.
RECURSIVE RunBitAt(_, _)
RunBitAt(runs, i) ==
    IF i <= Head(runs).len THEN Head(runs).bit
    ELSE RunBitAt(Tail(runs), i - Head(runs).len)

\* The value of bits from..to of the runs, the first bit the most significant.
RECURSIVE RunValue(_, _, _)
RunValue(runs, from, to) ==
    IF from > to THEN 0
    ELSE 2 * RunValue(runs, from, to - 1) + RunBitAt(runs, to)

\* C11: when a step returns Terminated after runs of T bits in all,
\* floor(T/8) bytes have been produced, unaligned holds exactly when T mod 8
\* is not 0, and then partial_output_byte is Some((d, k)) with k = T mod 8 and
\* d the last k bits of the runs, right-aligned.
C11_PartialByte ==
    d_ret.state.tag = "Terminated" =>
        LET T == RunBits(StreamRuns)
            k == T % 8
            part == partial_output_byte(decoder)
        IN  /\ Len(d_out) = T \div 8
            /\ d_ret.state.unaligned <=> k # 0
            /\ part.some <=> k # 0
            /\ k # 0 => /\ part.bits = k
                        /\ part.data = RunValue(StreamRuns, T - k + 1, T)
                        /\ part.data < Pow2(k)

C11_Witness ==
    /\ d_ret.state.tag = "Terminated" /\ ~d_ret.again
    /\ d_ret.state.unaligned /\ Len(d_out) >= 1
    /\ Len(StreamRuns) >= 2
    /\ partial_output_byte(decoder).bits >= 2
    /\ partial_output_byte(decoder).data \notin {0, Pow2(partial_output_byte(decoder).bits) - 1}

\* C12 (as claimed): partial_output_byte returns Some only once a step has
\* returned Terminated with unaligned set; before any step has returned
\* Terminated it returns None.
C12_PartialOnlyAfterTerminated ==
    partial_output_byte(decoder).some =>
        d_ret.state.tag = "Terminated" /\ d_ret.state.unaligned

\* C13: a step of either codec returns CanConsume only when it has consumed
\* all of its input slice and CanProduce only when it has filled all of its
\* output slice; it never consumes or produces more than the slices hold.
C13_SuspendsOnlyWhenExhausted ==
    /\ e_ret.state.tag = "CanConsume" => e_ret.consumed = e_ret.in_len
    /\ e_ret.state.tag = "CanProduce" => e_ret.produced = e_ret.cap
    /\ e_ret.consumed <= e_ret.in_len /\ e_ret.produced <= e_ret.cap
    /\ d_ret.state.tag = "CanConsume" => d_ret.consumed = d_ret.in_len
    /\ d_ret.state.tag = "CanProduce" => d_ret.produced = d_ret.cap
    /\ d_ret.consumed <= d_ret.in_len /\ d_ret.produced <= d_ret.cap

C13_Witness ==
    /\ d_ret.state.tag = "CanProduce"
    /\ d_ret.cap > 0 /\ d_ret.produced = d_ret.cap
    /\ d_ret.consumed > 0 /\ d_ret.consumed < d_ret.in_len

\* C14 (as claimed): once the end of the input has been signalled, a caller
\* that keeps calling step with the rest of the input and a non-empty output
\* buffer gets Terminated in the end, and every call before that produces at
\* least one byte.
C14_ProgressToTermination ==
    /\ [](e_ret.ended /\ e_ret.state.tag # "Terminated" => e_ret.produced >= 1)
    /\ encoder.queued_term ~> e_ret.state.tag = "Terminated"

\* ---- the code tables

\* The unary code of n: n - 1 zero bits, then a one bit.
UnaryCode(n) == [i \in 1..n |-> IF i = n THEN 1 ELSE 0]

\* The doubled-width code of n: p zero bits, a one bit, then n - (2^(p+1) - 1)
\* in p + 1 bits, where 2^(p+1) - 1 <= n <= 2^(p+2) - 2.
WideCode(n) ==
    LET p == CHOOSE j \in 0..11 : Pow2(j + 1) - 1 <= n /\ n <= Pow2(j + 2) - 2
        v == n - (Pow2(p + 1) - 1)
    IN  [i \in 1..(2 * (p + 1)) |->
            IF i <= p THEN 0
            ELSE IF i = p + 1 THEN 1
            ELSE (v \div Pow2(2 * (p + 1) - i)) % 2]

\* The code of a run of at most 4105 bits in the table with the unary codes.
UnaryTable(n) == IF n <= 12 THEN UnaryCode(n) ELSE LongSymbol(n - 13)

\* The code of a run of at most 12283 bits in the table with the
\* doubled-width codes.
WideTable(n) == IF n <= 8190 THEN WideCode(n) ELSE LongSymbol(n - 8191)

\* Bit i of what the encoder has emitted: the bytes produced, then the bits
\* still in symbol_data.
EmittedBit(i) ==
    IF i <= 8 * Len(e_out) THEN BitAt(e_out, i)
    ELSE encoder.symbol_data[i - 8 * Len(e_out)]

EmittedLen == 8 * Len(e_out) + encoder.symbol_bits

\* The encoder has emitted code, and nothing else, after the first skip bits.
EmittedIs(skip, code) ==
    /\ EmittedLen = skip + Len(code)
    /\ \A i \in 1..Len(code) : EmittedBit(skip + i) = code[i]

\* C15 (as claimed): a completed run of 1..4105 zero bits is emitted in the
\* table with the unary codes, a completed run of 1..12283 one bits in the
\* table with the doubled-width codes.
C15_TablesAsLabelled ==
    (s_src.kind = "run" /\ e_ret.state.tag # "None") =>
        /\ (s_src.bit = 0 /\ s_src.len <= 4105)
              => EmittedIs(s_src.skip, UnaryTable(s_src.len))
        /\ (s_src.bit = 1 /\ s_src.len <= 12283)
              => EmittedIs(s_src.skip, WideTable(s_src.len))

\* C15 (amended): a completed run of 1..12283 zero bits is emitted in the
\* table with the doubled-width codes, a completed run of 1..4105 one bits in
\* the table with the unary codes.
C15_TablesSwapped ==
    (s_src.kind = "run" /\ e_ret.state.tag # "None") =>
        /\ (s_src.bit = 0 /\ s_src.len <= 12283)
              => EmittedIs(s_src.skip, WideTable(s_src.len))
        /\ (s_src.bit = 1 /\ s_src.len <= 4105)
              => EmittedIs(s_src.skip, UnaryTable(s_src.len))

C15_Witness ==
    /\ s_src.kind = "run" /\ e_ret.state.tag = "CanConsume"
    /\ s_src.bit = 0 /\ s_src.len = 8190
    /\ e_out = <<0, 31, 255>>

\* ---- one symbol at a time (SpecSym)

\* The last call of Decoder::consume parsed a symbol: it did not suspend, and
\* the decoder it was called on had no run queued and had not seen the
\* end-of-stream marker.
SymParsed ==
    /\ d_ret.state.tag = "Consumed"
    /\ d_ret.state.before.queued_bits = 0
    /\ ~d_ret.state.before.symbol_term

\* Where in the stream the window started when the symbol was parsed, in
\* bits: the bytes consumed before the call less the bits still in the window.
SymStart == 8 * (d_pos - d_ret.consumed) - d_ret.state.before.symbol_bits

\* Bit i (from 0) of the window, read from the stream itself.
SymBit(i) ==
    IF SymStart + i + 1 <= 8 * Len(d_input) THEN BitAt(d_input, SymStart + i + 1)
    ELSE 0

\* The leading zero bits of the window, counted up to LongPrefix.
SymPrefix ==
    LET ones == { i \in 0..(LongPrefix - 1) : SymBit(i) = 1 }
    IN  IF ones = {} THEN LongPrefix
        ELSE CHOOSE i \in ones : \A j \in ones : i <= j

\* The value of the n bits of the window from bit from on.
RECURSIVE SymField(_, _)
SymField(from, n) ==
    IF n = 0 THEN 0 ELSE 2 * SymField(from, n - 1) + SymBit(from + n - 1)

\* The bits the parse removed from the window.
SymRemoved == (8 * d_pos - decoder.symbol_bits) - SymStart

\* C16 (as stated): a continuation symbol (long symbol with payload 0xFFD)
\* queues no bits for output when the decoder parses it, and leaves
\* symbol_mode as it was.
C16_ContinuationEmitsNothing ==
    (SymParsed /\ SymPrefix = LongPrefix /\ SymField(12, 12) = PayloadCont)
        => /\ decoder.queued_bits = 0
           /\ decoder.symbol_mode = d_ret.state.before.symbol_mode

\* C16 (amended): a continuation symbol queues a run of 12284 bits when it is
\* parsed in mode 0 and of 4106 bits in mode 1, of the bit of that mode, and
\* leaves symbol_mode as it was, so the next symbol is parsed in the same mode.
C16_ContinuationQueuesRun ==
    (SymParsed /\ SymPrefix = LongPrefix /\ SymField(12, 12) = PayloadCont)
        => /\ decoder.queued_bits =
                  IF d_ret.state.before.symbol_mode THEN 4106 ELSE 12284
           /\ decoder.queued_mode = d_ret.state.before.symbol_mode
           /\ decoder.symbol_mode = d_ret.state.before.symbol_mode
           /\ SymRemoved = 24

\* A continuation parsed in mode 1, after a no-op: 4106 one bits are queued.
C16_Witness ==
    /\ SymParsed /\ SymPrefix = LongPrefix /\ SymField(12, 12) = PayloadCont
    /\ d_ret.state.before.symbol_mode
    /\ decoder.queued_bits = 4106 /\ decoder.queued_mode /\ decoder.symbol_mode

\* C17: with p < 12 leading zero bits in the window, the decoder in mode 1
\* removes p + 1 bits and queues a run of p + 1 bits; in mode 0 it removes
\* 2 * (p + 1) bits and queues a run of payload + mask bits, mask being
\* 2^(p+1) - 1 and payload the p + 1 bits after the unary prefix, which lies
\* in 2^(p+1) - 1 .. 2^(p+2) - 2.
C17_ShortSymbols ==
    (SymParsed /\ SymPrefix < LongPrefix)
        => LET p == SymPrefix
               mask == Pow2(p + 1) - 1
               payload == SymField(p + 1, p + 1)
           IN  IF d_ret.state.before.symbol_mode
               THEN SymRemoved = p + 1 /\ decoder.queued_bits = p + 1
               ELSE /\ SymRemoved = 2 * (p + 1)
                    /\ decoder.queued_bits = payload + mask
                    /\ decoder.queued_bits >= Pow2(p + 1) - 1
                    /\ decoder.queued_bits <= Pow2(p + 2) - 2

\* The longest short symbol of mode 0 with the greatest payload: 8190 bits.
C17_Witness ==
    /\ SymParsed /\ SymPrefix = 11 /\ ~d_ret.state.before.symbol_mode
    /\ SymField(12, 12) = 4095
    /\ SymRemoved = 24 /\ decoder.queued_bits = 8190

\* C18: with 12 or more leading zero bits in the window the decoder removes
\* 24 bits and reads the payload v from bits 12..23 of the window: 0xFFF sets
\* symbol_term and queues no run, 0xFFE queues no run, v < 0xFFD queues a run
\* of v + 13 bits in mode 1 and of v + 8191 bits in mode 0.
C18_LongSymbols ==
    (SymParsed /\ SymPrefix >= LongPrefix)
        => LET v == SymField(12, 12)
           IN  /\ SymRemoved = 24
               /\ v = PayloadEnd => decoder.symbol_term /\ decoder.queued_bits = 0
               /\ v = PayloadNoop => ~decoder.symbol_term /\ decoder.queued_bits = 0
               /\ v < PayloadCont =>
                     /\ ~decoder.symbol_term
                     /\ decoder.queued_bits =
                           IF d_ret.state.before.symbol_mode THEN v + 13 ELSE v + 8191

\* The long symbol with the greatest run length, parsed in mode 1 at a bit
\* offset that is not a multiple of eight.
C18_Witness ==
    /\ SymParsed /\ SymPrefix >= LongPrefix /\ SymField(12, 12) = PayloadCont - 1
    /\ d_ret.state.before.symbol_mode /\ SymStart % 8 # 0
    /\ decoder.queued_bits = 4105

\* C19: the first symbol of a stream is parsed in mode 0; every parsed symbol
\* but the continuation toggles symbol_mode, the no-op included; the run a
\* symbol queues is of the bit of the mode the symbol was parsed in.
C19_ModeAlternation ==
    SymParsed
        => LET before == d_ret.state.before
               cont == SymPrefix = LongPrefix /\ SymField(12, 12) = PayloadCont
           IN  /\ SymStart = 0 => ~before.symbol_mode
               /\ ~cont => decoder.symbol_mode = ~before.symbol_mode
               /\ decoder.queued_bits > 0 => decoder.queued_mode = before.symbol_mode

\* A no-op parsed in mode 1 (after a short run of zero bits): the mode goes
\* back to 0 and no run is queued.
C19_Witness ==
    /\ SymParsed /\ SymStart > 0 /\ d_ret.state.before.symbol_mode
    /\ SymPrefix = LongPrefix /\ SymField(12, 12) = PayloadNoop
    /\ ~decoder.symbol_mode /\ decoder.queued_bits = 0

\* ---- the bytes of the runs (SpecDec)

\* C20: the bytes the decoder has produced, over all calls and whatever the
\* sizes of the output slices, are the runs of the stream laid end to end and
\* packed most significant bit first; the bits withheld in output_data are
\* the bits that follow them, and the bits still queued end a run.
C20_BytesOfRuns ==
    LET at == Len(d_out)
        runs == StreamRuns
    IN  /\ 8 * at + decoder.output_bits + decoder.queued_bits <= RunBits(runs)
        /\ \A i \in 1..at : d_out[i] = RunValue(runs, 8 * i - 7, 8 * i)
        /\ decoder.output_data =
               RunValue(runs, 8 * at + 1, 8 * at + decoder.output_bits)
        /\ decoder.queued_bits > 0 =>
               \A i \in 1..Min(decoder.queued_bits, 16) :
                   RunBitAt(runs, 8 * at + decoder.output_bits + i)
                       = IF decoder.queued_mode THEN 1 ELSE 0

\* A run of 21 zero bits and a run of 16 one bits decoded into slices of one
\* byte: two bytes by the fast path, one byte put together from both runs,
\* and the fast path stopped by the full slice with 13 one bits queued.
C20_Witness ==
    /\ d_ret.state.tag = "CanProduce" /\ d_ret.cap = 1
    /\ d_out = <<0, 0, 7>>
    /\ decoder.output_bits = 0 /\ decoder.queued_bits = 13 /\ decoder.queued_mode

\* ---- continuations (SpecRun)

\* The symbols of a run of n bits of bit: a continuation for every 12284 zero
\* bits or 4106 one bits, then one symbol for what remains, the no-op for 0.
RECURSIVE RunCode(_, _)
RunCode(bit, n) ==
    LET most == IF bit = 0 THEN 12284 ELSE 4106
    IN  IF n >= most THEN LongSymbol(PayloadCont) \o RunCode(bit, n - most)
        ELSE IF n = 0 THEN LongSymbol(PayloadNoop)
        ELSE IF bit = 0 THEN WideTable(n)
        ELSE UnaryTable(n)

\* C21: the symbols the encoder emits for a run of n bits are continuations,
\* one for every 12284 bits of a run of zero bits or 4106 bits of a run of one
\* bits and none below that, and one last symbol, the no-op when nothing
\* remains; the decoder, in the mode of the run, decodes them to n bits of the
\* run's value and has toggled its mode once when it reaches the marker.
C21_ContinuationClosure ==
    (s_src.kind = "run" /\ d_ret # NoCall) =>
        LET n == s_src.len
            fill == IF s_src.bit = 1 THEN 255 ELSE 0
            runs == StreamRuns
        IN  /\ EmittedIs(s_src.skip, RunCode(s_src.bit, n))
            /\ d_ret.state = [tag |-> "Terminated", corrupted |-> FALSE,
                              unaligned |-> n % 8 # 0]
            /\ Len(d_out) = n \div 8
            /\ \A i \in 1..Len(d_out) : d_out[i] = fill
            /\ decoder.output_bits = n % 8
            /\ decoder.output_data = IF s_src.bit = 1 THEN Pow2(n % 8) - 1 ELSE 0
            /\ \A i \in 1..Len(runs) : runs[i].bit = s_src.bit
            /\ RunBits(runs) = n
            /\ decoder.symbol_mode = (s_src.bit = 1)

\* A run of 4106 one bits: a continuation and a no-op, decoded to 513 bytes
\* of 0xFF and two more one bits.
C21_Witness ==
    /\ s_src.kind = "run" /\ s_src.bit = 1 /\ s_src.len = 4106
    /\ EmittedIs(0, LongSymbol(PayloadCont) \o LongSymbol(PayloadNoop))
    /\ d_ret.state.tag = "Terminated" /\ Len(d_out) = 513
    /\ decoder.output_bits = 2 /\ decoder.output_data = 3

\* ---- the no-op symbol (SpecRun)

\* The symbols Decoder::consume parses in the stream consumed from
\* consumed_len on, in order: whether the window held a long symbol, and the
\* 12 bits of its payload field.
RECURSIVE DecoderSymbols(_, _, _)
DecoderSymbols(d, consumed, consumed_len) ==
    LET f == DecoderFill(d, consumed, consumed_len)
        s == DecoderSymbol(f.dec.symbol_data, f.dec.symbol_mode)
        sym == [long |-> LeadingZeros32(f.dec.symbol_data) >= LongPrefix,
                payload |-> BitAnd(AsU16(Shr32(f.dec.symbol_data, 8)), 4095)]
    IN  IF f.ret THEN << >>
        ELSE IF s.term THEN << sym >>
        ELSE << sym >> \o DecoderSymbols([DecoderParse(f.dec) EXCEPT !.queued_bits = 0],
                                         consumed, f.consumed_len)

\* The symbols the encoder emitted in its step: those of the decoded stream
\* but the no-op put before it for an earlier step and the marker put after it.
EmittedSymbols ==
    LET all == DecoderSymbols(DecoderNew, d_input, 0)
        from == IF s_src.bit = 1 /\ s_src.skip = 0 THEN 2 ELSE 1
    IN  SubSeq(all, from, Len(all) - 1)

\* C22 (as stated): no 24-bit symbol with payload 0xFFE appears in the
\* encoder's output.
C22_NeverEmitsNoop ==
    (s_src.kind = "run" /\ d_ret # NoCall) =>
        \A i \in 1..Len(EmittedSymbols) :
            ~(EmittedSymbols[i].long /\ EmittedSymbols[i].payload = PayloadNoop)

\* C22 (amended): a symbol with payload 0xFFE appears in the encoder's output
\* only for an empty run: as the first symbol, exactly when the input begins
\* with a one bit, and right after a continuation, exactly when nothing
\* remains of the run.
C22_NoopOnlyForEmptyRun ==
    (s_src.kind = "run" /\ d_ret # NoCall) =>
        LET syms == EmittedSymbols
            noop(i) == syms[i].long /\ syms[i].payload = PayloadNoop
            cont(i) == syms[i].long /\ syms[i].payload = PayloadCont
            most == IF s_src.bit = 0 THEN 12284 ELSE 4106
        IN  /\ Len(syms) >= 1
            /\ s_src.skip = 24 => noop(1)
            /\ (s_src.bit = 0 /\ s_src.len > 0) => ~noop(1)
            /\ \A i \in 2..Len(syms) :
                  noop(i) <=> /\ cont(i - 1) /\ i = Len(syms)
                              /\ s_src.len % most = 0

\* The input 0xE0: a no-op for the empty run of zero bits, then the code of
\* three one bits.
C22_Witness ==
    /\ s_src.kind = "run" /\ d_ret # NoCall
    /\ s_src.bit = 1 /\ s_src.skip = 24 /\ s_src.len = 3
    /\ e_input = <<224>> /\ e_out = <<0, 15, 254>>
    /\ Len(EmittedSymbols) = 2

\* ---- the end of the stream (SpecDec)

\* The number of bits of the stream consumed up to and including the
\* end-of-stream marker, found by parsing the whole stream; 0 when the stream
\* has no marker.
RECURSIVE MarkerEnd(_, _, _)
MarkerEnd(d, consumed, consumed_len) ==
    LET f == DecoderFill(d, consumed, consumed_len)
        s == DecoderSymbol(f.dec.symbol_data, f.dec.symbol_mode)
        at == 8 * f.consumed_len - f.dec.symbol_bits
    IN  IF f.ret THEN 0
        ELSE IF s.term THEN at + s.shift_out
        ELSE MarkerEnd([DecoderParse(f.dec) EXCEPT !.queued_bits = 0],
                       consumed, f.consumed_len)

\* C23: when a step returns Terminated, the bytes consumed over all calls are
\* those up to the byte with the last bit B of the end-of-stream marker,
\* ceil(B/8) of them; at most 7 bits are left in the window, the bits of that
\* byte after the marker; corrupted tells whether one of these is set, and the
\* bytes of the stream after that byte, or passed later, are not consumed.
C23_StopsAtMarkerByte ==
    d_ret.state.tag = "Terminated" =>
        LET B == MarkerEnd(DecoderNew, d_input, 0)
        IN  /\ B > 0
            /\ d_pos = (B + 7) \div 8
            /\ decoder.symbol_bits <= 7
            /\ decoder.symbol_bits = 8 * d_pos - B
            /\ d_ret.state.corrupted <=>
                   \E i \in (B + 1)..(8 * d_pos) : BitAt(d_input, i) = 1
            /\ d_ret.again => d_ret.consumed = 0

\* The marker ends with its byte and a byte with a set bit follows: the byte
\* is not consumed and the stream is not corrupted.
C23_Witness ==
    /\ d_ret.state.tag = "Terminated" /\ ~d_ret.state.corrupted
    /\ d_pos < Len(d_input) /\ d_input[Len(d_input)] = 128
    /\ decoder.symbol_bits = 0 /\ Len(d_out) >= 1

\* ---- what a codec holds when it asks for input (SpecPair)

\* C24: whenever Encoder::step returns CanConsume fewer than 8 symbol bits
\* are buffered, and whenever Decoder::step returns CanConsume the output
\* byte under assembly is incomplete, however the earlier calls were sliced.
C24_NoByteWithheld ==
    /\ e_ret.state.tag = "CanConsume" => encoder.symbol_bits < 8
    /\ d_ret.state.tag = "CanConsume" => decoder.output_bits < 8

\* ---- the state of the decoder (SpecDecAll)

\* C25: in every state the decoder is left in by a sequence of step calls,
\* and by every call of consume and produce inside a step,
\* symbol_bits is at most 31, the bits of symbol_data below the symbol_bits
\* that count are zero, output_bits is at most 8 and no run is queued once
\* symbol_term is set; when a step returns Terminated, symbol_bits is at most
\* 7 and queued_bits is 0, as the debug assertions of Decoder::step require.
C25_DecoderInvariants ==
    /\ decoder.symbol_bits >= 0 /\ decoder.symbol_bits <= 31
    /\ \A i \in (decoder.symbol_bits + 1)..32 : decoder.symbol_data[i] = 0
    /\ decoder.output_bits >= 0 /\ decoder.output_bits <= 8
    /\ decoder.queued_bits >= 0
    /\ decoder.symbol_term => decoder.queued_bits = 0
    /\ d_ret.state.tag = "Terminated" =>
          decoder.symbol_bits <= 7 /\ decoder.queued_bits = 0

\* Decoder::consume has parsed a short symbol and left more than 24 bits in
\* the window, the last of them set, and has queued a run.
C25_Witness ==
    /\ d_ret.state.tag = "Consumed"
    /\ decoder.symbol_bits > 24 /\ decoder.symbol_data[decoder.symbol_bits] = 1
    /\ decoder.queued_bits > 0 /\ ~decoder.symbol_term

\* ---- the state of the encoder (SpecEnc)

\* C26: in every state the encoder is left in by a sequence of step and
\* set_consumed_bytes_end calls, symbol_bits is at most 32, the bits of
\* symbol_data below the symbol_bits that count are zero and output_bits is at
\* most 8; when a step returns Terminated, symbol_bits, queued_bits and
\* output_bits are 0, as the debug assertions of Encoder::step require; and a
\* call on an encoder whose symbol_term is set consumes no input byte.
C26_EncoderInvariants ==
    /\ [](/\ encoder.symbol_bits >= 0 /\ encoder.symbol_bits <= 32
          /\ \A i \in (encoder.symbol_bits + 1)..32 : encoder.symbol_data[i] = 0
          /\ encoder.output_bits >= 0 /\ encoder.output_bits <= 8
          /\ encoder.queued_bits >= 0
          /\ e_ret.state.tag = "Terminated" =>
                /\ encoder.symbol_bits = 0 /\ encoder.queued_bits = 0
                /\ encoder.output_bits = 0)
    /\ [][(encoder.symbol_term /\ e_ret' # NoCall) => e_pos' = e_pos]_vars

\* A step has returned CanProduce with the end-of-stream symbol packed behind
\* buffered bits: all 32 bits of symbol_data count.
C26_Witness ==
    /\ e_ret.state.tag = "CanProduce"
    /\ encoder.symbol_term /\ encoder.symbol_bits = 32
    /\ encoder.symbol_data[32] = 1

\* ---------------------------------------------------------------------------
\* C27.  The operands of every shift and subtraction of a consume or produce
\* call, read from the codec before the call (before) and after it.
\* ---------------------------------------------------------------------------

\* The bits Decoder::produce moved from the run to the partial byte: the run
\* shrank and no byte was written.
DecoderPartialAmount ==
    IF d_ret.produced = 0
    THEN d_ret.state.before.queued_bits - decoder.queued_bits ELSE 0

\* The bits Encoder::consume counted into the run.
EncoderCount == encoder.queued_bits - e_ret.state.before.queued_bits

\* The byte Encoder::consume counted the bits of: the one it fetched, or the
\* one it held.
EncoderCounted ==
    IF e_ret.consumed = 1 THEN e_input[e_pos]
    ELSE e_ret.state.before.output_data

\* The bits in symbol_data after Encoder::produce packed and before it wrote
\* bytes out.
EncoderPackedBits == encoder.symbol_bits + 8 * e_ret.produced

\* Encoder::produce packed a symbol.
EncoderPacked == EncoderPackedBits # e_ret.state.before.symbol_bits

\* The position the packed symbol was shifted to in an empty symbol_data.
EncoderPackedBase ==
    LET b == e_ret.state.before
    IN  IF b.symbol_term /\ ~b.output_term THEN 8
        ELSE EncoderSymbol(b.queued_mode, b.queued_bits).base

\* C27: no call performs out-of-range arithmetic.  In the decoder every input
\* byte is shifted by 24 - symbol_bits in 1..24, a parsed symbol removes no
\* more bits than the window holds, and the partial byte is shifted by at
\* most 7.  In the encoder output_data is shifted by at most 7 and by no more
\* bits than it holds, a symbol is packed only when symbol_bits <= 8, at a
\* shift that is not negative, symbol_bits is at most 32 after packing, and
\* the run of a continuation is at least as long as what is subtracted.
C27_ArithmeticInRange ==
    /\ d_ret.state.tag \in {"Consumed", "CanConsume"} =>
          LET b == d_ret.state.before
          IN  /\ (b.queued_bits = 0 /\ ~b.symbol_term) =>
                    \A j \in 1..d_ret.consumed :
                       /\ 24 - (b.symbol_bits + 8 * (j - 1)) >= 1
                       /\ 24 - (b.symbol_bits + 8 * (j - 1)) <= 24
              /\ SymParsed =>
                    /\ SymRemoved >= 1 /\ SymRemoved <= 24
                    /\ b.symbol_bits + 8 * d_ret.consumed >= SymRemoved
    /\ d_ret.state.tag \in {"Produced", "CanProduce"} =>
          /\ DecoderPartialAmount >= 0 /\ DecoderPartialAmount <= 7
          /\ d_ret.state.before.output_bits + DecoderPartialAmount <= 8
    /\ e_ret.state.tag = "Consumed" =>
          /\ EncoderCount >= 0 /\ EncoderCount <= 8
          /\ encoder.output_bits >= 0
          /\ encoder.output_data =
                IF EncoderCount < 8 THEN Shl8(EncoderCounted, EncoderCount)
                ELSE EncoderCounted
    /\ (e_ret.state.tag \in {"Produced", "CanProduce", "Terminated"}
          /\ s_src.kind = "calls" /\ EncoderPacked) =>
          /\ e_ret.state.before.symbol_bits >= 0
          /\ e_ret.state.before.symbol_bits <= 8
          /\ EncoderPackedBase - e_ret.state.before.symbol_bits >= 0
          /\ EncoderPackedBase - e_ret.state.before.symbol_bits <= 31
          /\ EncoderPackedBits <= 32
          /\ encoder.queued_bits >= 0

\* A symbol of 24 bits is packed on top of a whole byte still in symbol_data:
\* the shift is 0 and symbol_data is full.
C27_Witness ==
    /\ s_src.kind = "calls"
    /\ e_ret.state.tag \in {"Produced", "CanProduce", "Terminated"}
    /\ e_ret.state.before.symbol_bits = 8
    /\ EncoderPackedBits = 32
    /\ EncoderPackedBase = 8

====
